---- MODULE Spec2Model ----
(***************************************************************************)
(* Model of the background orchestration core of kiyo_bot:                 *)
(*   - NotionService._request      (retrying store client)                 *)
(*   - NotionService.fetch_pending_todos / update_task_completion /        *)
(*     reset_daily_todos           (task store operations)                 *)
(*   - tasks/scheduler.py reminder jobs                                    *)
(*   - tasks/scheduler.py setup_scheduler / shutdown_scheduler, job table  *)
(* Time is counted in minutes; day d starts at minute d * 1440.            *)
(***************************************************************************)
EXTENDS Integers, Sequences, FiniteSets, TLC

\* ------------------------------------------------------------------------
\* Bounds of the model
\* ------------------------------------------------------------------------
NTasks == 4
MaxDay == 1
PageSize == 2

\* ------------------------------------------------------------------------
\* Program constants
\* ------------------------------------------------------------------------
RETRY_ATTEMPTS == 3
BASE_DELAY == 1
RetryableStatuses == {429, 500, 503, 504}

\* `random` is used by _request (lines 100, 113, 123) but the module's
\* import block (lines 1-11) does not import it: evaluating the backoff
\* delay raises NameError.
RandomImported == FALSE

\* Python's None for a date, a timestamp or a cursor.
NoDate == 0 - 1
NoCursor == 0

\* ------------------------------------------------------------------------
\* Exceptions
\* ------------------------------------------------------------------------
NotionAPIError(status, code) ==
    [type |-> "NotionAPIError", status |-> status, code |-> code]

NameError == [type |-> "NameError", status |-> 0, code |-> "random"]
ClientError == [type |-> "ClientError", status |-> 0, code |-> ""]
TimeoutError == [type |-> "TimeoutError", status |-> 0, code |-> ""]
NoExc == [type |-> "none", status |-> 0, code |-> ""]

\* ------------------------------------------------------------------------
\* What the remote store may answer to one attempt of a request
\* ------------------------------------------------------------------------
OkStatuses == {200}
PermanentStatuses == {400, 404, 502}
Statuses == OkStatuses \cup RetryableStatuses \cup PermanentStatuses

StoreCode(status) ==
    CASE status = 400 -> "validation_error"
      [] status = 404 -> "object_not_found"
      [] status = 429 -> "rate_limited"
      [] status = 500 -> "internal_server_error"
      [] status = 502 -> "bad_gateway"
      [] status = 503 -> "service_unavailable"
      [] status = 504 -> "gateway_timeout"
      [] OTHER -> ""

IsSuccess(status) == 200 <= status /\ status < 300

\* kind "status": a response arrived; json_ok tells whether its body parses
\* as JSON.  kind "conn_error": aiohttp.ClientError.  kind "timeout":
\* asyncio.TimeoutError; the store may have applied the request already.
Outcome ==
    { [kind |-> "status", status |-> s, code |-> StoreCode(s),
       json_ok |-> j, applied |-> IsSuccess(s)] :
         s \in Statuses, j \in BOOLEAN }
    \cup { [kind |-> "conn_error", status |-> 0, code |-> "",
            json_ok |-> FALSE, applied |-> FALSE] }
    \cup { [kind |-> "timeout", status |-> 0, code |-> "",
            json_ok |-> FALSE, applied |-> a] : a \in BOOLEAN }

IsTransient(o) ==
    \/ o.kind = "status" /\ o.status \in RetryableStatuses
    \/ o.kind \in {"conn_error", "timeout"}

IsPermanent(o) ==
    o.kind = "status" /\ ~IsSuccess(o.status) /\ o.status \notin RetryableStatuses

IsOk(o) == o.kind = "status" /\ IsSuccess(o.status) /\ o.json_ok

\* ------------------------------------------------------------------------
\* NotionService._request
\* ------------------------------------------------------------------------
\* How one iteration of the retry loop ends.
Return == [t |-> "return", exc |-> NoExc, delay |-> 0]
Raise(e) == [t |-> "raise", exc |-> e, delay |-> 0]
Continue(d) == [t |-> "continue", exc |-> NoExc, delay |-> d]

\* `delay = base_delay * (2 ** attempt) + random.uniform(0, 1)` followed by
\* `await asyncio.sleep(delay); continue`.  The delay is counted in whole
\* seconds (the jitter is in [0,1)).
Backoff(attempt) ==
    IF RandomImported
    THEN Continue(BASE_DELAY * (2 ^ attempt))
    ELSE Raise(NameError)

\* Body of the `try` (lines 75-107) for the outcome o of session.request.
TryBodyRetryAll(o, attempt) ==
    CASE o.kind = "conn_error" -> Raise(ClientError)
      [] o.kind = "timeout" -> Raise(TimeoutError)
      [] OTHER ->
           IF IsSuccess(o.status)
           THEN IF o.json_ok
                THEN Return
                ELSE Raise(NotionAPIError(o.status, "invalid_json"))
           ELSE IF attempt < RETRY_ATTEMPTS - 1
                THEN Continue(BASE_DELAY * (2 ^ attempt))
                ELSE Raise(NotionAPIError(o.status,
                           IF o.json_ok THEN o.code ELSE "unknown_api_error"))

TryBody(o, attempt) ==
    CASE o.kind = "conn_error" -> Raise(ClientError)
      [] o.kind = "timeout" -> Raise(TimeoutError)
      [] OTHER ->
           IF IsSuccess(o.status)
           THEN IF o.json_ok
                THEN Return
                ELSE Raise(NotionAPIError(o.status, "invalid_json"))
           ELSE IF o.status \in RetryableStatuses /\ attempt < RETRY_ATTEMPTS - 1
                THEN Backoff(attempt)
                ELSE Raise(NotionAPIError(o.status,
                           IF o.json_ok THEN o.code ELSE "unknown_api_error"))

\* The `except` clauses (lines 109-131) applied to the way the try body
\* ended.  An exception raised inside an except clause is not handled by
\* the later clauses of the same try statement: it leaves _request.
ExceptClauses(c, attempt) ==
    IF c.t # "raise"
    THEN c
    ELSE CASE c.exc.type = "ClientError" ->
                IF attempt < RETRY_ATTEMPTS - 1
                THEN Backoff(attempt)
                ELSE Raise(NotionAPIError(503, "connection_error"))
           [] c.exc.type = "TimeoutError" ->
                IF attempt < RETRY_ATTEMPTS - 1
                THEN Backoff(attempt)
                ELSE Raise(NotionAPIError(408, "timeout"))
           [] OTHER -> Raise(NotionAPIError(500, "internal_client_error"))

Iteration(o, attempt) == ExceptClauses(TryBody(o, attempt), attempt)

\* What the store would answer to each of the attempts of one request.
Scripts == [1..RETRY_ATTEMPTS -> Outcome]

\* `for attempt in range(retry_attempts)` from iteration `attempt` on,
\* against the script sc: the outcomes consumed (one per session.request
\* call), the backoff waits, and the way _request ends.
RECURSIVE RunFrom(_, _)
RunFrom(sc, attempt) ==
    IF attempt >= RETRY_ATTEMPTS
    THEN [consumed |-> << >>, slept |-> << >>,
          result |-> Raise(NotionAPIError(500, "max_retries_exceeded"))]
    ELSE LET o == sc[attempt + 1]
             c == Iteration(o, attempt)
         IN IF c.t = "continue"
            THEN LET r == RunFrom(sc, attempt + 1)
                 IN [consumed |-> <<o>> \o r.consumed,
                     slept |-> <<c.delay>> \o r.slept,
                     result |-> r.result]
            ELSE [consumed |-> <<o>>, slept |-> << >>, result |-> c]

\* All executions of _request.
Request == { RunFrom(sc, 0) : sc \in Scripts }

NoRun == [consumed |-> << >>, slept |-> << >>, result |-> [t |-> "none", exc |-> NoExc, delay |-> 0]]

\* The store applies a write when some attempt reached it.
RunApplied(run) == \E i \in 1..Len(run.consumed) : run.consumed[i].applied

\* ------------------------------------------------------------------------
\* The remote task database
\* ------------------------------------------------------------------------
\* Day 0 is a Monday; `now.strftime("%a")` of a time on day d.
WEEKDAY_ABBR == <<"Mon", "Tue", "Wed", "Thu", "Fri", "Sat", "Sun">>
MinutesPerDay == 24 * 60
DayOf(t) == t \div MinutesPerDay
StrftimeA(t) == WEEKDAY_ABBR[(DayOf(t) % 7) + 1]
\* `now.strftime("%Y-%m-%d")`: one string per calendar day.
StrftimeYmd(t) == DayOf(t)

\* The properties of a task the user sets and this program never writes.
\* recurrence: "daily" is the select option 매일, "weekly" is 매주, "none" is
\* the empty select.  due is a day, or NoDate.  time_text is the text of
\* 구체적인 시간, one character per element.  block is the select 시간대:
\* "morning" 아침, "noon" 점심, "evening" 저녁, "night" 밤, "misc" 무관, "" none.
Catalogue == <<
    [recurrence |-> "daily",  weekdays |-> {},             due |-> NoDate,
     time_text |-> <<"0", "9", ":", "0", "0">>,            block |-> "noon"],
    [recurrence |-> "weekly", weekdays |-> {"Tue", "Wed"}, due |-> NoDate,
     time_text |-> << >>,                                  block |-> "noon"],
    [recurrence |-> "none",   weekdays |-> {},             due |-> 1,
     time_text |-> <<" ", "9", ":", "5", "p", "m">>,       block |-> ""],
    [recurrence |-> "weekly", weekdays |-> {"Mon"},        due |-> 0,
     time_text |-> <<" ">>,                                block |-> "misc"],
    [recurrence |-> "none",   weekdays |-> {},             due |-> 0,
     time_text |-> <<"2", "5", ":", "0", "0">>,            block |-> "evening"],
    [recurrence |-> "daily",  weekdays |-> {"Mon"},        due |-> NoDate,
     time_text |-> << >>,                                  block |-> "misc"] >>

TaskIds == 1..NTasks
Profile(i) == Catalogue[((i - 1) % Len(Catalogue)) + 1]

VARIABLES
    now,      \* wall clock (minutes)
    tasks,    \* the store: id -> the properties this program writes
    op,       \* the TaskStore call in progress
    ret,      \* the last completed TaskStore call and what it gave back
    lastReq,  \* the execution of the last _request
    script,   \* the store's answers planned for the last _request
    pages,    \* the pages the store served to the query loop in progress
    job,      \* the scheduler job in progress
    fired,    \* the jobs already fired at the time `now`
    lastSent, \* id -> when the last reminder of the task was delivered
    passLog,  \* what the last reminder pass fetched, attempted and delivered
    sched,    \* tasks/scheduler.py: _scheduler and the schedulers created;
              \* KiyoBot.scheduler_initialized
    schedLog, \* the last scheduler operation and the callbacks it invoked
    cfg,      \* config.py: the settings of the inactivity monitor
    last_user_active_time, \* utils/activity_tracker.py: _last_user_active_time
    loop,     \* tasks/initiate_checker.py: the tasks.Loop
              \* _check_initiate_message_loop and _initiate_checker_task_obj
    tick,     \* the iteration of the loop in progress, or the last one
    bot,      \* the KiyoBot: set up, ready, closed; initiate_checker_loop_task
    parseCall, \* utils/helpers.py: the call of a parser and what it gave
    pool      \* NotionService: _session, _session_lock, the sessions created
              \* and the coroutines that use them

\* The variables of the inactivity monitor.
monVars == <<cfg, last_user_active_time, loop, tick, bot>>

\* The variables of the parsers and of the session pool.
auxVars == <<parseCall, pool>>

vars == <<now, tasks, op, ret, lastReq, script, pages, job, fired, lastSent, passLog,
          sched, schedLog, cfg, last_user_active_time, loop, tick, bot, parseCall, pool>>

\* Variables the task operations never touch.
nonStore == <<script, job, fired, lastSent, passLog, sched, schedLog, monVars, auxVars>>

\* The inactivity monitor: settings, loop object and host
\* ------------------------------------------------------------------------
\* config.py: INITIATE_CHECK_INTERVAL_MINUTES, INITIATE_ALLOWED_START_HOUR,
\* INITIATE_ALLOWED_END_HOUR, INITIATE_MIN_GAP_HOURS (each an int read from
\* the environment) and whether TARGET_USER_ID is set.
Config(interval, start_h, end_h, min_gap, target) ==
    [INITIATE_CHECK_INTERVAL_MINUTES |-> interval,
     INITIATE_ALLOWED_START_HOUR |-> start_h,
     INITIATE_ALLOWED_END_HOUR |-> end_h,
     INITIATE_MIN_GAP_HOURS |-> min_gap,
     TARGET_USER_ID |-> target]

\* The defaults of config.py.
DefaultConfig == Config(480, 11, 1, 24, TRUE)

\* now.hour of a wall clock in minutes.
HourOf(t) == (t \div 60) % 24

\* The tasks.Loop before start(): no task; _initiate_checker_task_obj None.
\* task is "none", "running", "cancelling" (cancel() called, CancelledError
\* not yet delivered), "stopping" (stop() called), "cancelled", "stopped"
\* or "failed" (an exception left the coroutine).
NoLoop ==
    [task |-> "none", current_loop |-> 0, next_iteration |-> 0,
     initiate_checker_task_obj |-> FALSE]

\* tasks.Loop.is_running(): the task exists and is not done.
IsRunning(lp) == lp.task \in {"running", "cancelling", "stopping"}

\* No iteration has begun.  pc is the await the iteration is suspended at
\* ("idle" between iterations), now the datetime.now of line 31, calls the
\* collaborator calls it has made, outcome how it ended and ended when.
\* after_sent says that the iteration before it sent (the "Sent initiate
\* message" line of the log, line 107).
NoTick ==
    [n |-> 0, pc |-> "idle", now |-> 0 - 1, is_allowed_time |-> FALSE,
     last_active_time |-> 0 - 1, calls |-> << >>, outcome |-> "none",
     ended |-> 0 - 1, after_sent |-> FALSE]

\* The KiyoBot after __init__ at time t.
NewBot(t) ==
    [setup |-> FALSE, ready |-> FALSE, closed |-> FALSE,
     initiate_checker_loop_task |-> FALSE, last_interaction_time |-> t]

\* The monitor in the specifications that never run it.
NoMonitor ==
    /\ cfg = DefaultConfig
    /\ last_user_active_time = now
    /\ loop = NoLoop
    /\ tick = NoTick
    /\ bot = NewBot(now)

\* No parser has been called.
NoParsed == [fn |-> "none", text |-> << >>, ref |-> 0, result |-> [t |-> "none"]]

\* The NotionService after __init__ (lines 44-45): no session, the lock
\* free.  sessions[k] is "open" or "closed"; session is an index of it, 0
\* for None; session_lock is the coroutine that holds the lock, 0 for
\* none; pc[p] is where coroutine p is and got[p] the session its
\* _get_session returned.
NoPool ==
    [session |-> 0, sessions |-> << >>, session_lock |-> 0,
     pc |-> << >>, got |-> << >>, last |-> [op |-> "none", p |-> 0]]

\* The parsers and the pool in the specifications that never run them.
NoAux ==
    /\ parseCall = NoParsed
    /\ pool = NoPool

\* initiate_checker.py lines 42-48: is_allowed_time.
IsAllowedTimeAnd(start_h, end_h, current_hour) ==
    IF start_h <= end_h
    THEN start_h <= current_hour /\ current_hour < end_h
    ELSE current_hour >= start_h /\ current_hour < end_h

IsAllowedTime(start_h, end_h, current_hour) ==
    IF start_h <= end_h
    THEN start_h <= current_hour /\ current_hour < end_h
    ELSE current_hour >= start_h \/ current_hour < end_h

\* start_initiate_checker(bot) at time t: the loop afterwards.  start()
\* creates the task; its first iteration is due at once.
StartInitiateChecker(lp, c, t) ==
    IF IsRunning(lp)
    THEN lp
    ELSE IF ~c.TARGET_USER_ID
         THEN lp
         ELSE [lp EXCEPT !.task = "running", !.current_loop = 0,
                         !.next_iteration = t,
                         !.initiate_checker_task_obj = TRUE]

\* What start_initiate_checker returns: whether it is a Loop (not None).
StartInitiateCheckerReturns(lp, c) ==
    IF IsRunning(lp)
    THEN lp.initiate_checker_task_obj
    ELSE c.TARGET_USER_ID

StopInitiateCheckerStop(lp) ==
    IF IsRunning(lp)
    THEN [lp EXCEPT !.task = IF @ = "running" THEN "stopping" ELSE @,
                    !.initiate_checker_task_obj = FALSE]
    ELSE lp

\* stop_initiate_checker(): cancel() asks the task to be cancelled; the
\* CancelledError reaches it at its suspension point.
StopInitiateChecker(lp) ==
    IF IsRunning(lp)
    THEN [lp EXCEPT !.task = "cancelling",
                    !.initiate_checker_task_obj = FALSE]
    ELSE lp

\* The page object the store returns for task i.
Page(tk, i) ==
    [id |-> i, completed |-> tk[i].completed,
     last_reminded |-> tk[i].last_reminded,
     recurrence |-> Profile(i).recurrence, weekdays |-> Profile(i).weekdays,
     due |-> Profile(i).due, time_text |-> Profile(i).time_text,
     block |-> Profile(i).block]

\* Query filters: nested AND/OR over property conditions.
And(fs) == [op |-> "and", args |-> fs]
Or(fs) == [op |-> "or", args |-> fs]
Cond(property, condition, value) ==
    [op |-> "cond", property |-> property, condition |-> condition, value |-> value]

\* The store's evaluation of a filter on a page.
RECURSIVE EvalFilter(_, _)
EvalFilter(f, page) ==
    CASE f.op = "and" -> \A k \in 1..Len(f.args) : EvalFilter(f.args[k], page)
      [] f.op = "or" -> \E k \in 1..Len(f.args) : EvalFilter(f.args[k], page)
      [] OTHER ->
           CASE f.property = "completed" -> page.completed = f.value
             [] f.property = "repeat" /\ f.condition = "equals" ->
                  page.recurrence = f.value
             [] f.property = "repeat" /\ f.condition = "is_empty" ->
                  page.recurrence = "none"
             [] f.property = "weekday" -> f.value \in page.weekdays
             [] f.property = "date" -> page.due = f.value
             [] OTHER -> FALSE

\* The ids matching a filter, in the store's order.
QueryMatches(tk, f) ==
    SelectSeq([i \in TaskIds |-> i], LAMBDA i : EvalFilter(f, Page(tk, i)))

Min(a, b) == IF a <= b THEN a ELSE b

\* The store's answer to `POST databases/{id}/query` with start_cursor.
QueryResponse(tk, f, cursor) ==
    LET m == QueryMatches(tk, f)
        first == IF cursor = NoCursor THEN 1 ELSE cursor
        last == Min(first + PageSize - 1, Len(m))
        more == last < Len(m)
    IN [results |-> SubSeq(m, first, last),
        has_more |-> more,
        next_cursor |-> IF more THEN last + 1 ELSE NoCursor]

\* ------------------------------------------------------------------------
\* NotionService: task operations
\* ------------------------------------------------------------------------
FetchFilterNoCheckbox(t) ==
    Or(<< Cond("repeat", "equals", "daily"),
          And(<< Cond("repeat", "equals", "weekly"),
                 Cond("weekday", "contains", StrftimeA(t)) >>),
          And(<< Cond("repeat", "is_empty", TRUE),
                 Cond("date", "equals", StrftimeYmd(t)) >>) >>)

\* query_payload["filter"] of fetch_pending_todos at time t.
FetchFilter(t) ==
    And(<< Cond("completed", "equals", FALSE),
           Or(<< Cond("repeat", "equals", "daily"),
                 And(<< Cond("repeat", "equals", "weekly"),
                        Cond("weekday", "contains", StrftimeA(t)) >>),
                 And(<< Cond("repeat", "is_empty", TRUE),
                        Cond("date", "equals", StrftimeYmd(t)) >>) >>) >>)

ResetFilterAnyWeekday(t) ==
    And(<< Cond("completed", "equals", TRUE),
           Or(<< Cond("repeat", "equals", "daily"),
                 Cond("repeat", "equals", "weekly") >>) >>)

\* query_payload["filter"] of reset_daily_todos at time t.
ResetFilter(t) ==
    And(<< Cond("completed", "equals", TRUE),
           Or(<< Cond("repeat", "equals", "daily"),
                 And(<< Cond("repeat", "equals", "weekly"),
                        Cond("weekday", "contains", StrftimeA(t)) >>) >>) >>)

Idle ==
    [fn |-> "none", pc |-> "", id |-> 0, done |-> FALSE, t0 |-> 0,
     cursor |-> NoCursor, sent |-> NoCursor, acc |-> << >>,
     pending |-> << >>, count |-> 0, clean |-> TRUE, before |-> << >>]

NoRet ==
    [fn |-> "none", id |-> 0, done |-> FALSE, t |-> "none", ok |-> FALSE,
     list |-> << >>, exc |-> NoExc, count |-> 0, clean |-> FALSE,
     t0 |-> 0, before |-> << >>]

\* A TaskStore call ends: r is what the caller gets.
Finish(r) ==
    /\ ret' = r
    /\ op' = Idle

SentCursorStale == op.sent

\* query_payload.get("start_cursor") when the request of one iteration of
\* the pagination loop is sent: `if start_cursor:` overwrites the entry.
SentCursor == IF op.cursor # NoCursor THEN op.cursor ELSE op.sent

NoJob == [name |-> "none", pc |-> "", block |-> "", t |-> 0, todos |-> << >>]

\* No reminder pass to report on.  list: pending_todos as fetched;
\* attempted: the tasks for which the pass reached the generation of a
\* reminder text, in order; delivered: the tasks whose message dm_channel.send
\* delivered; messages: the messages delivered; done: the job has returned.
NoPass ==
    [name |-> "none", block |-> "", t |-> 0, list |-> << >>,
     attempted |-> << >>, delivered |-> << >>, messages |-> 0, done |-> FALSE]

\* `_scheduler: Optional[AsyncIOScheduler] = None` (0 stands for None, k > 0
\* for the k-th scheduler created) and `self.scheduler_initialized = False`.
NoSched == [scheduler |-> 0, instances |-> << >>, scheduler_initialized |-> FALSE]
\* warned: setup_scheduler logged "Scheduler is already running.".
\* t, ran, raised: the time of a pass over the due jobs, the job ids whose
\* callback it invoked, in order, and those whose callback raised.
NoSchedLog ==
    [call |-> "none", id |-> "", by |-> << >>, warned |-> FALSE,
     t |-> 0, ran |-> << >>, raised |-> {}]

\* Entry of fetch_pending_todos up to its first request.
CallFetch ==
    /\ op.fn = "none"
    /\ op' = [Idle EXCEPT !.fn = "fetch", !.pc = "query", !.t0 = now]
    /\ pages' = << >>
    /\ ret' = NoRet
    /\ UNCHANGED <<now, tasks, lastReq>>

\* fetch_pending_todos is called outside the scheduler jobs.
FetchPendingTodos ==
    /\ job.name = "none"
    /\ CallFetch
    /\ UNCHANGED nonStore

ExceptNotionAPIErrorPartial(all_pending_todos) == all_pending_todos

\* `except NotionAPIError as e: ... return []` (lines 548-550).
ExceptNotionAPIError(all_pending_todos) == << >>

\* One `await self._request('POST', ...query)` of fetch_pending_todos and
\* what follows it up to the next request or the return.
FetchQuery ==
    /\ op.fn = "fetch" /\ op.pc = "query"
    /\ \E run \in Request :
         /\ lastReq' = run
         /\ IF run.result.t = "return"
            THEN LET resp == QueryResponse(tasks, FetchFilter(op.t0), SentCursor)
                     all == op.acc \o resp.results
                 IN /\ pages' = Append(pages, resp.results)
                    /\ IF resp.has_more
                       THEN /\ op' = [op EXCEPT !.cursor = resp.next_cursor,
                                               !.sent = SentCursor, !.acc = all,
                                               !.count = op.count + 1]
                            /\ UNCHANGED ret
                       ELSE Finish([NoRet EXCEPT !.fn = "fetch", !.t = "return",
                                      !.list = all, !.clean = TRUE,
                                      !.count = op.count + 1, !.t0 = op.t0])
            ELSE /\ pages' = pages
                 /\ IF run.result.exc.type = "NotionAPIError"
                    THEN Finish([NoRet EXCEPT !.fn = "fetch", !.t = "return",
                                   !.list = ExceptNotionAPIError(op.acc),
                                   !.t0 = op.t0])
                    ELSE Finish([NoRet EXCEPT !.fn = "fetch", !.t = "raise",
                                   !.exc = run.result.exc, !.t0 = op.t0])
    /\ UNCHANGED <<now, tasks, nonStore>>

\* update_task_completion(page_id, is_done) against the execution `run` of
\* its PATCH request: the store afterwards and what the caller gets.
UpdateEffect(tk, id, done, run) ==
    [tasks |-> IF RunApplied(run) THEN [tk EXCEPT ![id].completed = done] ELSE tk,
     t |-> IF run.result.t = "return" \/ run.result.exc.type = "NotionAPIError"
           THEN "return" ELSE "raise",
     ok |-> run.result.t = "return",
     exc |-> IF run.result.t = "return" \/ run.result.exc.type = "NotionAPIError"
             THEN NoExc ELSE run.result.exc]

\* update_task_completion(id, done); id 0 is the empty page id.
UpdateTaskCompletion(id, done) ==
    /\ op.fn = "none" /\ job.name = "none"
    /\ IF id = 0
       THEN /\ Finish([NoRet EXCEPT !.fn = "update", !.id = id, !.done = done,
                         !.t = "return", !.ok = FALSE])
            /\ UNCHANGED <<tasks, lastReq>>
       ELSE \E run \in Request :
              LET eff == UpdateEffect(tasks, id, done, run) IN
                /\ lastReq' = run
                /\ tasks' = eff.tasks
                /\ Finish([NoRet EXCEPT !.fn = "update", !.id = id, !.done = done,
                             !.t = eff.t, !.ok = eff.ok, !.exc = eff.exc])
    /\ UNCHANGED <<now, pages, nonStore>>

\* _job_reset_daily_todos fires and calls reset_daily_todos.
JobResetDailyTodos ==
    /\ op.fn = "none" /\ job.name = "none"
    /\ op' = [Idle EXCEPT !.fn = "reset", !.pc = "query", !.t0 = now, !.before = tasks]
    /\ pages' = << >>
    /\ ret' = NoRet
    /\ UNCHANGED <<now, tasks, lastReq, nonStore>>

\* reset_daily_todos returns None; the job's own try/except has nothing
\* left to catch.
ResetReturn(count, clean) ==
    Finish([NoRet EXCEPT !.fn = "reset", !.t = "return", !.count = count,
              !.clean = clean, !.t0 = op.t0, !.before = op.before])

\* One query request of reset_daily_todos.
ResetQuery ==
    /\ op.fn = "reset" /\ op.pc = "query"
    /\ \E run \in Request :
         /\ lastReq' = run
         /\ IF run.result.t = "return"
            THEN LET resp == QueryResponse(tasks, ResetFilter(op.t0), SentCursor)
                     all == op.acc \o resp.results
                 IN /\ pages' = Append(pages, resp.results)
                    /\ IF resp.has_more
                       THEN /\ op' = [op EXCEPT !.cursor = resp.next_cursor,
                                               !.sent = SentCursor, !.acc = all]
                            /\ UNCHANGED ret
                       ELSE IF all = << >>
                            THEN ResetReturn(0, TRUE)
                            ELSE /\ op' = [op EXCEPT !.pc = "gather", !.acc = all,
                                                    !.pending = all]
                                 /\ UNCHANGED ret
            ELSE /\ pages' = pages
                 /\ ResetReturn(0, FALSE)
    /\ UNCHANGED <<now, tasks, nonStore>>

ResetGatherAbortOnFailure ==
    /\ op.fn = "reset" /\ op.pc = "gather"
    /\ \E run \in Request :
         LET id == Head(op.pending)
             eff == UpdateEffect(tasks, id, FALSE, run)
             n == IF eff.t = "return" /\ eff.ok THEN op.count + 1 ELSE op.count
         IN /\ lastReq' = run
            /\ tasks' = eff.tasks
            /\ IF Tail(op.pending) = << >> \/ run.result.t # "return"
               THEN ResetReturn(n, op.clean /\ run.result.t = "return")
               ELSE /\ op' = [op EXCEPT !.pending = Tail(op.pending), !.count = n,
                                       !.clean = op.clean /\ run.result.t = "return"]
                    /\ UNCHANGED ret
    /\ UNCHANGED <<now, pages, nonStore>>

\* One update_task_completion(id, False) of the gather of reset_daily_todos;
\* after the last one the results are counted and the call returns.
ResetGather ==
    /\ op.fn = "reset" /\ op.pc = "gather"
    /\ \E run \in Request :
         LET id == Head(op.pending)
             eff == UpdateEffect(tasks, id, FALSE, run)
             n == IF eff.t = "return" /\ eff.ok THEN op.count + 1 ELSE op.count
         IN /\ lastReq' = run
            /\ tasks' = eff.tasks
            /\ IF Tail(op.pending) = << >>
               THEN ResetReturn(n, op.clean /\ run.result.t = "return")
               ELSE /\ op' = [op EXCEPT !.pending = Tail(op.pending), !.count = n,
                                       !.clean = op.clean /\ run.result.t = "return"]
                    /\ UNCHANGED ret
    /\ UNCHANGED <<now, pages, nonStore>>

\* ------------------------------------------------------------------------
\* utils/helpers.py: parse_time_string
\* ------------------------------------------------------------------------
NoTime == 0 - 1
DIGITS == <<"0", "1", "2", "3", "4", "5", "6", "7", "8", "9">>
IsDigit(c) == \E v \in 1..10 : DIGITS[v] = c
DigitVal(c) == (CHOOSE v \in 1..10 : DIGITS[v] = c) - 1
IsSpace(c) == c \in {" ", "\t", "\n"}

\* str.strip()
RECURSIVE LStrip(_)
LStrip(t) == IF t # << >> /\ IsSpace(Head(t)) THEN LStrip(Tail(t)) ELSE t
RECURSIVE RStrip(_)
RStrip(t) ==
    IF t # << >> /\ IsSpace(t[Len(t)]) THEN RStrip(SubSeq(t, 1, Len(t) - 1)) ELSE t
Strip(t) == RStrip(LStrip(t))

\* int() of the digits t[a..b]
Num(t, a, b) == IF a = b THEN DigitVal(t[a]) ELSE 10 * DigitVal(t[a]) + DigitVal(t[b])

At(t, k) == IF k >= 1 /\ k <= Len(t) THEN t[k] ELSE ""

\* The %M directive of strptime, `[0-5]\d|\d`, at position k: the position
\* after the match, or 0.
MatchMinute(t, k) ==
    IF At(t, k) \in {"0", "1", "2", "3", "4", "5"} /\ IsDigit(At(t, k + 1))
    THEN k + 2
    ELSE IF IsDigit(At(t, k)) THEN k + 1 ELSE 0

\* The %H directive, `2[0-3]|[0-1]\d|\d`, matches two characters.
MatchHour2(t) ==
    \/ At(t, 1) = "2" /\ At(t, 2) \in {"0", "1", "2", "3"}
    \/ At(t, 1) \in {"0", "1"} /\ IsDigit(At(t, 2))

\* datetime.strptime(t, "%H:%M").time() in minutes of the day; NoTime
\* stands for ValueError (no match, or unconverted data remains).
Strptime(t) ==
    IF MatchHour2(t) /\ At(t, 3) = ":" /\ MatchMinute(t, 4) # 0
    THEN IF MatchMinute(t, 4) = Len(t) + 1
         THEN 60 * Num(t, 1, 2) + Num(t, 4, Len(t))
         ELSE NoTime
    ELSE IF IsDigit(At(t, 1)) /\ At(t, 2) = ":" /\ MatchMinute(t, 3) # 0
         THEN IF MatchMinute(t, 3) = Len(t) + 1
              THEN 60 * Num(t, 1, 1) + Num(t, 3, Len(t))
              ELSE NoTime
         ELSE NoTime

\* re.match(r"(\d{1,2}):(\d{1,2})", t) and the range test that follows.
RegexFallback(t) ==
    LET hlen == IF IsDigit(At(t, 1)) /\ IsDigit(At(t, 2)) /\ At(t, 3) = ":"
                   /\ IsDigit(At(t, 4))
                THEN 2
                ELSE IF IsDigit(At(t, 1)) /\ At(t, 2) = ":" /\ IsDigit(At(t, 3))
                     THEN 1 ELSE 0
        mlen == IF IsDigit(At(t, hlen + 3)) THEN 2 ELSE 1
        hour == Num(t, 1, hlen)
        minute == Num(t, hlen + 2, hlen + 1 + mlen)
    IN IF hlen = 0
       THEN NoTime
       ELSE IF hour <= 23 /\ minute <= 59 THEN 60 * hour + minute ELSE NoTime

\* parse_time_string(time_str): minutes of the day, or NoTime for None.
ParseTimeString(text) ==
    IF text = << >>
    THEN NoTime
    ELSE IF Strptime(Strip(text)) # NoTime
         THEN Strptime(Strip(text))
         ELSE RegexFallback(Strip(text))

\* ------------------------------------------------------------------------
\* utils/helpers.py: parse_natural_date_string
\* ------------------------------------------------------------------------
\* A text is a sequence of characters; a Hangul syllable is one character,
\* written here by its romanisation with a capital ("Nae", "Il" for the two
\* syllables of the word for tomorrow).  A date is a day number, day 0
\* being Monday 2024-01-01; date.weekday() is 0 for Monday.
Weekday(d) == d % 7

\* w occurs in t at position i.
IsAt(t, w, i) ==
    /\ i >= 1 /\ i + Len(w) - 1 <= Len(t)
    /\ SubSeq(t, i, i + Len(w) - 1) = w

\* w in t
Contains(t, w) == \E i \in 1..Len(t) : IsAt(t, w, i)

\* t.replace(w, "")
RECURSIVE Remove(_, _)
Remove(t, w) ==
    IF t = << >> \/ w = << >>
    THEN t
    ELSE IF IsAt(t, w, 1)
         THEN Remove(SubSeq(t, Len(w) + 1, Len(t)), w)
         ELSE <<Head(t)>> \o Remove(Tail(t), w)

\* The keywords of lines 156-170: today, tomorrow, the day after tomorrow,
\* yesterday, the day before yesterday (two spellings).
KwToday == <<"O", "Neul">>
KwTomorrow == <<"Nae", "Il">>
KwDayAfterTomorrow == <<"Mo", "Re">>
KwYesterday == <<"Eo", "Je">>
KwDayBeforeYesterday == <<"Geu", "Jeo", "Kke">>
KwDayBeforeYesterdayShort == <<"Geu", "Je">>

\* Lines 174-175: the weekday characters in the order Monday..Sunday, the
\* optional suffix of a weekday name, and the two qualifiers, next week and
\* this week, as the regular expression writes them (the week syllable
\* after any white space).
DayChars == <<"Wol", "Hwa", "Su", "Mok", "Geum", "To", "Il">>
IsDayChar(c) == \E k \in 1..7 : DayChars[k] = c
DayNumber(c) == (CHOOSE k \in 1..7 : DayChars[k] = c) - 1
Yoil == <<"Yo", "Il">>
QualNext == <<"Da", "Eum">>
QualThis == <<"I", "Beon">>
WeekSyllable == "Ju"

\* The literals the code compares the qualifier with (lines 182, 184).
NextWeekLiteral == <<"Da", "Eum", " ", "Ju">>
ThisWeekLiteral == <<"I", "Beon", " ", "Ju">>

\* \s* from position i: the first position that holds no white space.
RECURSIVE SkipSpaces(_, _)
SkipSpaces(t, i) == IF IsSpace(At(t, i)) THEN SkipSpaces(t, i + 1) ELSE i

\* (next\s*week|this\s*week) at position i: the position after it, or 0.
QualifierEnd(t, i) ==
    IF IsAt(t, QualNext, i) \/ IsAt(t, QualThis, i)
    THEN IF At(t, SkipSpaces(t, i + 2)) = WeekSyllable
         THEN SkipSpaces(t, i + 2) + 1
         ELSE 0
    ELSE 0

\* The regular expression of line 175 at position i, the day character
\* being at position a and the qualifier, if any, ending before q.
DayMatchFrom(t, i, q, a) ==
    [start |-> i,
     stop |-> IF IsAt(t, Yoil, a + 1) THEN a + 2 ELSE a,
     prefix |-> IF q = 0 THEN << >> ELSE SubSeq(t, i, q - 1),
     day_char |-> At(t, a)]

NoMatch == [start |-> 0, stop |-> 0, prefix |-> << >>, day_char |-> ""]

\* The match of the regular expression that starts at position i, if any:
\* with the qualifier when it is there and a weekday follows, else without.
DayMatchAt(t, i) ==
    LET q == QualifierEnd(t, i)
        a == IF q = 0 THEN 0 ELSE SkipSpaces(t, q)
        b == SkipSpaces(t, i)
    IN IF q # 0 /\ IsDayChar(At(t, a))
       THEN DayMatchFrom(t, i, q, a)
       ELSE IF IsDayChar(At(t, b))
            THEN DayMatchFrom(t, i, 0, b)
            ELSE NoMatch

\* re.search: the leftmost match.
DaySearch(t) ==
    IF \E i \in 1..Len(t) : DayMatchAt(t, i) # NoMatch
    THEN DayMatchAt(t, CHOOSE i \in 1..Len(t) :
                          /\ DayMatchAt(t, i) # NoMatch
                          /\ \A j \in 1..(i - 1) : DayMatchAt(t, j) = NoMatch)
    ELSE NoMatch

\* ref + relativedelta(weekday=X): the first X on or after the day d.
WeekdayOnOrAfter(d, wd) == d + ((7 - Weekday(d) + wd) % 7)

\* ref + relativedelta(weekday=X(-1)): the last X on or before the day d.
WeekdayOnOrBefore(d, wd) == d - ((Weekday(d) - wd + 7) % 7)

\* Line 183: relativedelta(weeks=1, weekday=X(-1)) adds the week first and
\* then goes back to the weekday.
ResolveNextWeek(ref, wd) == WeekdayOnOrBefore(ref + 7, wd)

\* Lines 177-194: the date of the weekday pattern m for the reference day.
WeekdayDate(m, ref) ==
    LET wd == DayNumber(m.day_char) IN
      IF m.prefix = NextWeekLiteral
      THEN ResolveNextWeek(ref, wd)
      ELSE IF m.prefix = ThisWeekLiteral
           THEN WeekdayOnOrBefore(ref, wd)
           ELSE IF WeekdayOnOrAfter(ref, wd) < ref
                THEN WeekdayOnOrAfter(ref + 7, wd)
                ELSE WeekdayOnOrAfter(ref, wd)

\* The results of a parser: a timezone-aware datetime, None, or an
\* exception that leaves it.
DateTime(day, minutes) ==
    [t |-> "datetime", date |-> day, minutes |-> minutes, tz |-> "KST"]
TimeOfDay(minutes) == [t |-> "time", minutes |-> minutes]
NoneResult == [t |-> "None"]
Raises(e) == [t |-> "raise", exc |-> e]

default_time == 9 * 60

DefaultDateTimeMidnight(day) == DateTime(day, 0)

\* Line 209: a date with no text left for the time gets default_time.
DefaultDateTime(day) == DateTime(day, default_time)

\* dateutil.parser.parse of a text without a date, for the forms of the
\* texts of the model: an hour with am or pm ("3pm") and "H:MM"; NoTime
\* stands for its ParserError (a ValueError), which it raises for an empty
\* text and for a text with a token it does not know, such as a Hangul
\* word.
DateutilParse(t) ==
    IF Len(t) = 3 /\ IsDigit(t[1]) /\ t[2] \in {"a", "p"} /\ t[3] = "m"
       /\ DigitVal(t[1]) >= 1
    THEN 60 * (DigitVal(t[1]) + IF t[2] = "p" THEN 12 ELSE 0)
    ELSE Strptime(t)

\* Line 217 names dateutil_parse.ParserError, but dateutil_parse is the
\* function dateutil.parser.parse, which has no such attribute: when an
\* exception reaches the except clause, evaluating the clause raises
\* AttributeError.
ParserErrorResolves == FALSE

\* Lines 217-219: what the call gives when dateutil raises.
ExceptClause ==
    IF ParserErrorResolves THEN NoneResult ELSE Raises("AttributeError")

\* Lines 156-170: the day offset of the first keyword the text holds, and
\* the text without it.
RelativeKeyword(t) ==
    IF Contains(t, KwToday)
    THEN [found |-> TRUE, offset |-> 0, rest |-> Strip(Remove(t, KwToday))]
    ELSE IF Contains(t, KwTomorrow)
    THEN [found |-> TRUE, offset |-> 1, rest |-> Strip(Remove(t, KwTomorrow))]
    ELSE IF Contains(t, KwDayAfterTomorrow)
    THEN [found |-> TRUE, offset |-> 2,
          rest |-> Strip(Remove(t, KwDayAfterTomorrow))]
    ELSE IF Contains(t, KwYesterday)
    THEN [found |-> TRUE, offset |-> 0 - 1, rest |-> Strip(Remove(t, KwYesterday))]
    ELSE IF Contains(t, KwDayBeforeYesterday) \/ Contains(t, KwDayBeforeYesterdayShort)
    THEN [found |-> TRUE, offset |-> 0 - 2,
          rest |-> Strip(Remove(Remove(t, KwDayBeforeYesterday),
                                KwDayBeforeYesterdayShort))]
    ELSE [found |-> FALSE, offset |-> 0, rest |-> t]

\* Lines 200-231 for the date `day` (NoDate when no date was found) and
\* the text left for the time.
CombineDateAndTime(day, time_text_part, text_to_parse, ref) ==
    IF day # NoDate
    THEN IF time_text_part # << >>
         THEN IF DateutilParse(time_text_part) # NoTime
              THEN DateTime(day, DateutilParse(time_text_part))
              ELSE ExceptClause
         ELSE DefaultDateTime(day)
    ELSE IF DateutilParse(text_to_parse) # NoTime
         THEN DateTime(ref, DateutilParse(text_to_parse))
         ELSE ExceptClause

\* parse_natural_date_string(natural_date_str, base_datetime), the
\* reference being on the day ref.
ParseNaturalDateString(natural_date_str, ref) ==
    IF natural_date_str = << >>
    THEN NoneResult
    ELSE LET text_to_parse == Strip(natural_date_str)
             kw == RelativeKeyword(text_to_parse)
             m == DaySearch(text_to_parse)
         IN IF kw.found
            THEN CombineDateAndTime(ref + kw.offset, kw.rest, text_to_parse, ref)
            ELSE IF m # NoMatch
                 THEN CombineDateAndTime(
                          WeekdayDate(m, ref),
                          Strip(Remove(text_to_parse,
                                       SubSeq(text_to_parse, m.start, m.stop))),
                          text_to_parse, ref)
                 ELSE CombineDateAndTime(NoDate, text_to_parse, text_to_parse, ref)

\* ------------------------------------------------------------------------
\* tasks/scheduler.py: the reminder jobs
\* ------------------------------------------------------------------------
ORDERED_TIMEBLOCKS == <<"morning", "noon", "evening", "night">>
REMINDER_COOLDOWN_HOURS == 3

\* The module uses timedelta (lines 194, 266) but imports only datetime,
\* time and date from datetime (line 5).
TimedeltaImported == FALSE

\* CronTrigger(minute='*/5') of _job_check_reminders.
CheckFires(t) == (t % MinutesPerDay) % 5 = 0

\* The CronTrigger of each _job_send_timeblock_reminder registration.
TimeblockJobs == {"morning", "noon", "evening", "night", "misc"}
TimeblockTrigger(block) ==
    CASE block = "morning" -> 9 * 60 + 5
      [] block = "noon" -> 12 * 60 + 5
      [] block = "evening" -> 18 * 60 + 5
      [] block = "night" -> 21 * 60
      [] block = "misc" -> 14 * 60 + 15
TimeblockFires(block, t) == t % MinutesPerDay = TimeblockTrigger(block)

\* `if last_reminded_at and (now - last_reminded_at) <
\* timedelta(hours=REMINDER_COOLDOWN_HOURS)`: "skip" when the branch is
\* taken, "pass" when it is not, "abort" when evaluating it raises.
CooldownCheck(last, t) ==
    IF last = NoDate
    THEN "pass"
    ELSE IF ~TimedeltaImported
         THEN "abort"
         ELSE IF t - last < REMINDER_COOLDOWN_HOURS * 60 THEN "skip" ELSE "pass"

\* bot.notion_service.update_task_last_reminded_at: NotionService defines
\* no such method, the attribute lookup raises AttributeError.
AttributeError == [type |-> "AttributeError", status |-> 0, code |-> "update_task_last_reminded_at"]
UpdateTaskLastRemindedAt == Raise(AttributeError)

\* One iteration of `for todo in pending_todos` of _job_check_reminders up
\* to the decision: "skip" (continue), "remind", or "abort" (an exception
\* that leaves the loop).
CheckDecision(page, t) ==
    IF Strip(page.time_text) = << >>
    THEN "skip"
    ELSE LET parsed == ParseTimeString(Strip(page.time_text)) IN
           IF parsed # NoTime /\ parsed <= t % MinutesPerDay
           THEN LET c == CooldownCheck(page.last_reminded, t) IN
                  IF c = "pass" THEN "remind" ELSE c
           ELSE "skip"

\* The job ends; nothing it holds is used again.
EndJob ==
    /\ job' = NoJob
    /\ ret' = NoRet
    /\ lastReq' = NoRun

\* _job_check_reminders fires: _get_target_user_dm, then the call of
\* fetch_pending_todos.  dm tells whether a DM channel was obtained.
JobCheckReminders(dm) ==
    /\ job.name = "none" /\ op.fn = "none"
    /\ CheckFires(now) /\ "check" \notin fired
    /\ fired' = fired \cup {"check"}
    /\ IF dm
       THEN /\ CallFetch
            /\ job' = [NoJob EXCEPT !.name = "check", !.pc = "fetch"]
       ELSE UNCHANGED <<now, tasks, op, ret, lastReq, pages, job>>
    /\ passLog' = NoPass
    /\ UNCHANGED <<script, lastSent, sched, schedLog, monVars, auxVars>>

\* fetch_pending_todos has come back to _job_check_reminders.
CheckFetched ==
    /\ job.name = "check" /\ job.pc = "fetch" /\ op.fn = "none"
    /\ IF ret.t = "raise" \/ ret.list = << >>
       THEN EndJob
       ELSE /\ job' = [job EXCEPT !.pc = "loop", !.t = now, !.todos = ret.list]
            /\ ret' = NoRet
            /\ lastReq' = NoRun
    /\ passLog' = [NoPass EXCEPT !.name = "check", !.t = now, !.list = ret.list,
                                !.done = ret.t = "raise" \/ ret.list = << >>]
    /\ UNCHANGED <<now, tasks, op, script, pages, fired, lastSent, sched, schedLog, monVars, auxVars>>

RecordedBeforeSend(attempted, delivered) == attempted

\* Whether last_reminded_at of a task is written: the call of
\* update_task_last_reminded_at comes after `await dm_channel.send(...)`
\* in the same try block, and raises.
Recorded(attempted, delivered) ==
    delivered /\ UpdateTaskLastRemindedAt.t # "raise"

LeavesLoopOnSendFailure(d, delivered) ==
    d = "abort" \/ (d = "remind" /\ ~delivered)

\* Whether an iteration of `for todo in pending_todos` ends the loop by an
\* exception: what generate_reminder_dialogue, send and
\* update_task_last_reminded_at raise is caught by the inner except
\* (line 206); what the cooldown comparison raises is not.
LeavesLoop(d, delivered) == d = "abort"

\* One iteration of the loop of _job_check_reminders.  gen_ok and send_ok
\* tell whether generate_reminder_dialogue and dm_channel.send succeed.
CheckTodo(gen_ok, send_ok) ==
    /\ job.name = "check" /\ job.pc = "loop"
    /\ LET id == Head(job.todos)
           d == CheckDecision(Page(tasks, id), job.t)
           delivered == d = "remind" /\ gen_ok /\ send_ok
           \* after the send: update_task_last_reminded_at raises, the
           \* inner except logs it and the loop goes on
           recorded == Recorded(d = "remind", delivered)
           ends == LeavesLoop(d, delivered) \/ Tail(job.todos) = << >>
       IN /\ lastSent' = IF delivered THEN [lastSent EXCEPT ![id] = job.t] ELSE lastSent
          /\ tasks' = IF recorded
                      THEN [tasks EXCEPT ![id].last_reminded = job.t]
                      ELSE tasks
          /\ IF ends
             THEN job' = NoJob
             ELSE job' = [job EXCEPT !.todos = Tail(job.todos)]
          /\ passLog' = [passLog EXCEPT
                 !.attempted = IF d = "remind" THEN Append(@, id) ELSE @,
                 !.delivered = IF delivered THEN Append(@, id) ELSE @,
                 !.messages = IF delivered THEN @ + 1 ELSE @,
                 !.done = ends]
    /\ UNCHANGED <<now, op, ret, lastReq, script, pages, fired, sched, schedLog, monVars, auxVars>>

TimeblockDecisionAnyTime(page, relevant, t) ==
    IF page.block # "" /\ page.block \in relevant
    THEN LET c == CooldownCheck(page.last_reminded, t) IN
           IF c = "pass" THEN "include" ELSE c
    ELSE "skip"

\* The tasks _job_send_timeblock_reminder puts in its batch, in order;
\* abort tells that the loop was left by an exception.
TimeblockDecision(page, relevant, t) ==
    IF Strip(page.time_text) # << >>
    THEN "skip"
    ELSE IF page.block # "" /\ page.block \in relevant
         THEN LET c == CooldownCheck(page.last_reminded, t) IN
                IF c = "pass" THEN "include" ELSE c
         ELSE "skip"

RECURSIVE Collect(_, _, _, _)
Collect(ids, tk, relevant, t) ==
    IF ids = << >>
    THEN [abort |-> FALSE, batch |-> << >>]
    ELSE LET d == TimeblockDecision(Page(tk, Head(ids)), relevant, t) IN
           IF d = "abort"
           THEN [abort |-> TRUE, batch |-> << >>]
           ELSE LET r == Collect(Tail(ids), tk, relevant, t) IN
                  [abort |-> r.abort,
                   batch |-> IF d = "include" THEN <<Head(ids)>> \o r.batch
                             ELSE r.batch]

RelevantTimeblocksAll(block) ==
    IF \E k \in 1..Len(ORDERED_TIMEBLOCKS) : ORDERED_TIMEBLOCKS[k] = block
    THEN LET idx == CHOOSE k \in 1..Len(ORDERED_TIMEBLOCKS) : ORDERED_TIMEBLOCKS[k] = block
         IN { ORDERED_TIMEBLOCKS[k] : k \in 1..idx }
    ELSE { ORDERED_TIMEBLOCKS[k] : k \in 1..Len(ORDERED_TIMEBLOCKS) } \cup {block}

\* ORDERED_TIMEBLOCKS[:index + 1]; the empty set when index() raises
\* ValueError and the job returns.
RelevantTimeblocks(block) ==
    IF \E k \in 1..Len(ORDERED_TIMEBLOCKS) : ORDERED_TIMEBLOCKS[k] = block
    THEN LET idx == CHOOSE k \in 1..Len(ORDERED_TIMEBLOCKS) : ORDERED_TIMEBLOCKS[k] = block
         IN { ORDERED_TIMEBLOCKS[k] : k \in 1..idx }
    ELSE {}

\* _job_send_timeblock_reminder(bot, block) fires.
JobSendTimeblockReminder(block, dm) ==
    /\ job.name = "none" /\ op.fn = "none"
    /\ TimeblockFires(block, now) /\ block \notin fired
    /\ fired' = fired \cup {block}
    /\ IF dm
       THEN /\ CallFetch
            /\ job' = [NoJob EXCEPT !.name = "timeblock", !.pc = "fetch", !.block = block]
       ELSE UNCHANGED <<now, tasks, op, ret, lastReq, pages, job>>
    /\ passLog' = NoPass
    /\ UNCHANGED <<script, lastSent, sched, schedLog, monVars, auxVars>>

\* fetch_pending_todos has come back to _job_send_timeblock_reminder: the
\* rest of the job.  gen_ok and send_ok tell whether
\* generate_timeblock_reminder_gpt and dm_channel.send succeed.
TimeblockFetched(gen_ok, send_ok) ==
    /\ job.name = "timeblock" /\ job.pc = "fetch" /\ op.fn = "none"
    /\ LET c == Collect(ret.list, tasks, RelevantTimeblocks(job.block), now)
           \* `if cumulative_tasks_for_reminder:` is reached and true
           attempted == /\ ret.t = "return" /\ ret.list # << >>
                        /\ RelevantTimeblocks(job.block) # {}
                        /\ ~c.abort /\ c.batch # << >>
           delivered == attempted /\ gen_ok /\ send_ok
           recorded == Recorded(attempted, delivered)
       IN /\ lastSent' = [i \in TaskIds |->
                            IF delivered /\ \E k \in 1..Len(c.batch) : c.batch[k] = i
                            THEN now ELSE lastSent[i]]
          /\ tasks' = [i \in TaskIds |->
                            IF recorded /\ \E k \in 1..Len(c.batch) : c.batch[k] = i
                            THEN [tasks[i] EXCEPT !.last_reminded = now] ELSE tasks[i]]
          /\ passLog' = [NoPass EXCEPT
                 !.name = "timeblock", !.block = job.block, !.t = now,
                 !.list = IF ret.t = "return" THEN ret.list ELSE << >>,
                 !.attempted = IF attempted THEN c.batch ELSE << >>,
                 !.delivered = IF delivered THEN c.batch ELSE << >>,
                 !.messages = IF delivered THEN 1 ELSE 0,
                 !.done = TRUE]
    /\ EndJob
    /\ UNCHANGED <<now, op, script, pages, fired, sched, schedLog, monVars, auxVars>>

\* The clock reaches the next fire time of the model.
ClockSamples ==
    { 8 * 60 + 55, 9 * 60, 9 * 60 + 5, 12 * 60 + 5, 14 * 60 + 15, 18 * 60 + 5, 21 * 60 }

Tick ==
    /\ job.name = "none" /\ op.fn = "none"
    /\ \E m \in ClockSamples :
         /\ m > now % MinutesPerDay
         /\ \A m2 \in ClockSamples : m2 > now % MinutesPerDay => m <= m2
         /\ now' = DayOf(now) * MinutesPerDay + m
    /\ fired' = {}
    /\ passLog' = NoPass
    /\ UNCHANGED <<tasks, op, ret, lastReq, script, pages, job, lastSent, sched, schedLog, monVars, auxVars>>

\* A last_reminded_at some other writer left in the store that morning.
EarlierReminder(day) == day * MinutesPerDay + 6 * 60 + 40

InitRem ==
    /\ now \in { d * MinutesPerDay + 8 * 60 + 55 : d \in 0..MaxDay }
    /\ tasks \in [TaskIds -> [completed : {FALSE},
                              last_reminded : {NoDate, EarlierReminder(DayOf(now))}]]
    /\ op = Idle
    /\ ret = NoRet
    /\ lastReq = NoRun
    /\ script = << >>
    /\ pages = << >>
    /\ job = NoJob
    /\ fired = {}
    /\ lastSent = [i \in TaskIds |-> NoDate]
    /\ passLog = NoPass
    /\ sched = NoSched
    /\ schedLog = NoSchedLog
    /\ NoMonitor
    /\ NoAux

NextRem ==
    \/ \E dm \in BOOLEAN : JobCheckReminders(dm)
    \/ CheckFetched
    \/ \E gen_ok, send_ok \in BOOLEAN : CheckTodo(gen_ok, send_ok)
    \/ \E block \in TimeblockJobs, dm \in BOOLEAN : JobSendTimeblockReminder(block, dm)
    \/ \E gen_ok, send_ok \in BOOLEAN : TimeblockFetched(gen_ok, send_ok)
    \/ FetchQuery
    \/ Tick

SpecRem == InitRem /\ [][NextRem]_vars

\* C1: two consecutive delivered reminders of a task are at least
\* REMINDER_COOLDOWN_HOURS apart.
C1_CooldownBetweenDeliveries ==
    [][ \A i \in TaskIds :
          (lastSent[i] # NoDate /\ lastSent'[i] # lastSent[i]) =>
              lastSent'[i] - lastSent[i] >= REMINDER_COOLDOWN_HOURS * 60 ]_vars

\* C12: when a pass delivers a reminder for a task, the store holds the
\* pass's time as the task's last_reminded_at once the pass has handled the
\* task.
C12_DeliveryRecorded ==
    [][ \A i \in TaskIds :
          lastSent'[i] # lastSent[i] => tasks'[i].last_reminded = lastSent'[i] ]_vars

\* The eligibility rule of the specific-time mode for a fetched page at the
\* time t of the pass.
CooldownOver(last, t) == last = NoDate \/ t - last >= REMINDER_COOLDOWN_HOURS * 60

SpecificTimeEligible(page, t) ==
    /\ Strip(page.time_text) # << >>
    /\ ParseTimeString(Strip(page.time_text)) # NoTime
    /\ ParseTimeString(Strip(page.time_text)) <= t % MinutesPerDay
    /\ CooldownOver(page.last_reminded, t)

InList(i, sq) == \E k \in 1..Len(sq) : sq[k] = i

\* C13: when a check pass has ended, a reminder was attempted for a task of
\* the fetched list iff the task has a specific time that has come and its
\* last_reminded_at is null or at least REMINDER_COOLDOWN_HOURS old, wherever
\* the task stands in the list; no task was attempted twice.
C13_SpecificTimeIff ==
    (passLog.name = "check" /\ passLog.done) =>
        /\ \A k \in 1..Len(passLog.list) :
              InList(passLog.list[k], passLog.attempted)
                 <=> SpecificTimeEligible(Page(tasks, passLog.list[k]), passLog.t)
        /\ \A j, k \in 1..Len(passLog.attempted) :
              j # k => passLog.attempted[j] # passLog.attempted[k]

\* The tasks of the list ids for which `for todo in pending_todos` reaches
\* line 198 when no generation and no send fails.
RECURSIVE LoopAttempts(_, _, _)
LoopAttempts(ids, tk, t) ==
    IF ids = << >>
    THEN << >>
    ELSE LET d == CheckDecision(Page(tk, Head(ids)), t) IN
           IF d = "abort"
           THEN << >>
           ELSE (IF d = "remind" THEN <<Head(ids)>> ELSE << >>)
                    \o LoopAttempts(Tail(ids), tk, t)

\* C14: in a check pass the tasks that get a delivery attempt are the same
\* whether or not the generation or the send of other tasks' reminders
\* failed; when the cooldown comparison raises for no task of the list,
\* these are all the eligible tasks of the list.
C14_SendFailureIsolation ==
    (passLog.name = "check" /\ passLog.done) =>
        /\ passLog.attempted = LoopAttempts(passLog.list, tasks, passLog.t)
        /\ (\A k \in 1..Len(passLog.list) :
                tasks[passLog.list[k]].last_reminded = NoDate)
             => \A k \in 1..Len(passLog.list) :
                   SpecificTimeEligible(Page(tasks, passLog.list[k]), passLog.t)
                      => InList(passLog.list[k], passLog.attempted)

C14_Witness ==
    /\ passLog.name = "check" /\ passLog.done
    /\ \E j, k \in 1..Len(passLog.attempted) :
         /\ j < k
         /\ ~InList(passLog.attempted[j], passLog.delivered)
         /\ InList(passLog.attempted[k], passLog.delivered)

\* C15: last_reminded_at of a task changes only in the step that delivers
\* the task's reminder, to the time of that delivery; after a pass, a task
\* whose generation or send failed has the last_reminded_at it had and
\* passes the same eligibility test again.
C15_RecordedOnlyAfterDelivery ==
    [][ /\ \A i \in TaskIds :
             tasks'[i].last_reminded # tasks[i].last_reminded =>
                 /\ lastSent'[i] # lastSent[i]
                 /\ tasks'[i].last_reminded = lastSent'[i]
        /\ passLog'.done =>
             \A k \in 1..Len(passLog'.attempted) :
                LET i == passLog'.attempted[k] IN
                  ~InList(i, passLog'.delivered) =>
                     IF passLog'.name = "check"
                     THEN CheckDecision(Page(tasks', i), passLog'.t) = "remind"
                     ELSE TimeblockDecision(Page(tasks', i),
                              RelevantTimeblocks(passLog'.block), passLog'.t)
                            = "include" ]_vars

C15_Witness ==
    /\ passLog.name = "timeblock" /\ passLog.done
    /\ passLog.attempted # << >> /\ passLog.delivered = << >>
    /\ \A k \in 1..Len(passLog.attempted) :
          tasks[passLog.attempted[k]].last_reminded = NoDate

\* The batch of the cumulative mode for block at time t: the tasks of the
\* fetched list with no specific time, a block at or before `block`, and
\* no reminder within the cooldown.
TimeblockBatch(list, tk, block, t) ==
    SelectSeq(list, LAMBDA i :
        /\ Strip(Page(tk, i).time_text) = << >>
        /\ Page(tk, i).block \in RelevantTimeblocks(block)
        /\ CooldownOver(Page(tk, i).last_reminded, t))

\* C16: when the pass of a block of ORDERED_TIMEBLOCKS has ended, one
\* combined message was attempted for exactly the batch above if the batch
\* is not empty, and none if it is empty; at most one message was delivered.
C16_CumulativeBatch ==
    (passLog.name = "timeblock" /\ passLog.done
       /\ InList(passLog.block, ORDERED_TIMEBLOCKS)) =>
        /\ passLog.attempted =
               TimeblockBatch(passLog.list, tasks, passLog.block, passLog.t)
        /\ passLog.messages <= 1
        /\ passLog.attempted = << >> => passLog.messages = 0

\* C17: a task whose cumulative reminder was delivered at one block trigger
\* is in the batch of no later block trigger of the same day.
C17_NoReinclusionSameDay ==
    [][ (passLog'.name = "timeblock" /\ passLog' # passLog) =>
          \A k \in 1..Len(passLog'.attempted) :
             LET i == passLog'.attempted[k] IN
               lastSent[i] = NoDate \/ DayOf(lastSent[i]) # DayOf(passLog'.t) ]_vars

\* The task has a specific-time text (not blank).
HasSpecificTime(page) == Strip(page.time_text) # << >>

\* C37: the two reminder modes never meet on a task: no task with a
\* specific-time text is in the batch of a time-block pass, and no task
\* without one gets the individual reminder of a check pass.
C37_ModesDisjoint ==
    /\ passLog.name = "timeblock" =>
          \A k \in 1..Len(passLog.attempted) :
             ~HasSpecificTime(Page(tasks, passLog.attempted[k]))
    /\ passLog.name = "check" =>
          \A k \in 1..Len(passLog.attempted) :
             HasSpecificTime(Page(tasks, passLog.attempted[k]))

\* A batch was made from a list that holds a task with a specific time in
\* a block of the batch.
C37_Witness ==
    /\ passLog.name = "timeblock" /\ passLog.done
    /\ passLog.attempted # << >>
    /\ \E k \in 1..Len(passLog.list) :
          LET page == Page(tasks, passLog.list[k]) IN
            /\ HasSpecificTime(page)
            /\ page.block \in RelevantTimeblocks(passLog.block)
            /\ CooldownOver(page.last_reminded, passLog.t)
            /\ ~InList(passLog.list[k], passLog.attempted)

\* The request that ended fetch_pending_todos failed with a NotionAPIError.
FetchFailed(r, run) ==
    /\ r.fn = "fetch"
    /\ run.result.t = "raise"
    /\ run.result.exc.type = "NotionAPIError"

\* C38: when the request of any page fails with a NotionAPIError,
\* fetch_pending_todos returns the empty list, whatever pages it had
\* fetched, and the reminder pass that called it ends at once: no reminder
\* attempted, no message, no last_reminded_at written.
C38_FetchAllOrNothing ==
    [][ /\ (ret' # ret /\ FetchFailed(ret', lastReq')) =>
              ret'.t = "return" /\ ret'.list = << >>
        /\ (job.pc = "fetch" /\ op.fn = "none" /\ FetchFailed(ret, lastReq)) =>
              /\ job' = NoJob
              /\ passLog'.done
              /\ passLog'.list = << >>
              /\ passLog'.attempted = << >>
              /\ passLog'.messages = 0
              /\ tasks' = tasks
              /\ lastSent' = lastSent ]_vars

\* The request of the second page has failed, the first page is dropped.
C38_Witness ==
    /\ job.pc = "fetch" /\ op.fn = "none"
    /\ FetchFailed(ret, lastReq)
    /\ pages # << >> /\ pages[1] # << >>
    /\ ret.list = << >>

\* The block is one of ORDERED_TIMEBLOCKS.
IsOrdered(block) == InList(block, ORDERED_TIMEBLOCKS)

\* C39: no batch of a time-block pass holds a task whose block is outside
\* ORDERED_TIMEBLOCKS (the unspecified block, or none), and the pass of the
\* trigger registered for the unspecified block attempts no message, sends
\* none and writes no last_reminded_at, whatever tasks are pending.
C39_UnspecifiedBlockNeverBatched ==
    [][ (passLog'.name = "timeblock" /\ passLog' # passLog) =>
          /\ \A k \in 1..Len(passLog'.attempted) :
                IsOrdered(Page(tasks, passLog'.attempted[k]).block)
          /\ ~IsOrdered(passLog'.block) =>
                /\ passLog'.attempted = << >>
                /\ passLog'.messages = 0
                /\ tasks' = tasks
                /\ lastSent' = lastSent ]_vars

\* The pass of the unspecified block found a pending task of that block
\* with no specific time and no earlier reminder.
C39_Witness ==
    /\ passLog.name = "timeblock" /\ passLog.done
    /\ passLog.block = "misc"
    /\ passLog.attempted = << >>
    /\ \E k \in 1..Len(passLog.list) :
          LET page == Page(tasks, passLog.list[k]) IN
            /\ ~HasSpecificTime(page)
            /\ page.block = "misc"
            /\ page.last_reminded = NoDate

\* ------------------------------------------------------------------------
\* Specification of the task store
\* ------------------------------------------------------------------------
Init ==
    /\ now \in { d * MinutesPerDay + 1 : d \in 0..MaxDay }
    /\ tasks \in [TaskIds -> [completed : BOOLEAN, last_reminded : {NoDate}]]
    /\ op = Idle
    /\ ret = NoRet
    /\ lastReq = NoRun
    /\ script = << >>
    /\ pages = << >>
    /\ job = NoJob
    /\ fired = {}
    /\ lastSent = [i \in TaskIds |-> NoDate]
    /\ passLog = NoPass
    /\ sched = NoSched
    /\ schedLog = NoSchedLog
    /\ NoMonitor
    /\ NoAux

Next ==
    \/ FetchPendingTodos
    \/ FetchQuery
    \/ \E id \in {0} \cup TaskIds, done \in BOOLEAN : UpdateTaskCompletion(id, done)
    \/ JobResetDailyTodos
    \/ ResetQuery
    \/ ResetGather

Spec == Init /\ [][Next]_vars

\* ------------------------------------------------------------------------
\* Properties of the task operations
\* ------------------------------------------------------------------------
Range(sq) == { sq[k] : k \in 1..Len(sq) }

RECURSIVE Flatten(_)
Flatten(ps) == IF ps = << >> THEN << >> ELSE Head(ps) \o Flatten(Tail(ps))

IsPrefix(a, b) == Len(a) <= Len(b) /\ SubSeq(b, 1, Len(a)) = a
NoDup(sq) == \A j, k \in 1..Len(sq) : j # k => sq[j] # sq[k]
NumPages(n) == IF n = 0 THEN 1 ELSE (n + PageSize - 1) \div PageSize

RecursToday(i, t) ==
    \/ Profile(i).recurrence = "daily"
    \/ Profile(i).recurrence = "weekly" /\ StrftimeA(t) \in Profile(i).weekdays

DueToday(i, t) == Profile(i).recurrence = "none" /\ Profile(i).due = DayOf(t)

PendingToday(tk, t) ==
    { i \in TaskIds : ~tk[i].completed /\ (RecursToday(i, t) \/ DueToday(i, t)) }

\* C7: fetch_pending_todos returns exactly the tasks that are not completed
\* and are daily, or weekly with today's weekday in their weekday set, or
\* one-off with due date today; whatever the store answers, no other task is
\* ever returned.
C7_FetchPendingExact ==
    (ret.fn = "fetch" /\ ret.t = "return") =>
        /\ Range(ret.list) \subseteq PendingToday(tasks, ret.t0)
        /\ ret.clean => Range(ret.list) = PendingToday(tasks, ret.t0)

C7_Witness ==
    /\ ret.fn = "fetch" /\ ret.t = "return" /\ ret.clean
    /\ \E i, k \in Range(ret.list) :
         /\ Profile(i).recurrence = "daily"
         /\ Profile(k).recurrence = "none"
    /\ \E i \in TaskIds : tasks[i].completed /\ RecursToday(i, ret.t0)
    /\ \E i \in TaskIds : Profile(i).recurrence = "weekly" /\ ~tasks[i].completed
                           /\ i \notin Range(ret.list)

\* C8: the pagination loop asks the store for one page per request, with
\* the cursor of the page before, until has_more is false; each request
\* brings the loop one page further (so it ends after as many requests as
\* the store has pages), and the list returned is the concatenation of the
\* pages served: every matching task once, in the store's order.
C8_Pagination ==
    /\ op.fn = "fetch" =>
         LET m == QueryMatches(tasks, FetchFilter(op.t0)) IN
           /\ op.acc = Flatten(pages)
           /\ IsPrefix(op.acc, m)
           /\ op.count = Len(pages)
           /\ Len(pages) < NumPages(Len(m))
    /\ (ret.fn = "fetch" /\ ret.clean) =>
         LET m == QueryMatches(tasks, FetchFilter(ret.t0)) IN
           /\ ret.list = Flatten(pages)
           /\ ret.list = m
           /\ NoDup(ret.list)
           /\ ret.count = Len(pages)
           /\ Len(pages) = NumPages(Len(m))

C8_Witness ==
    /\ ret.fn = "fetch" /\ ret.clean
    /\ Len(pages) >= 2
    /\ Len(ret.list) > PageSize

\* C9: update_task_completion(id, v) called twice in a row: neither call
\* raises, each returns a boolean, and once a call has succeeded the repeat
\* leaves every task's completed flag as it was.
C9_MarkCompleteIdempotent ==
    [][ ( /\ op.fn = "none" /\ op'.fn = "none"
          /\ ret.fn = "update" /\ ret'.fn = "update"
          /\ ret.id # 0 /\ ret'.id = ret.id /\ ret'.done = ret.done )
        => ( /\ ret.t = "return" /\ ret'.t = "return"
             /\ (ret.ok => tasks' = tasks) ) ]_vars

\* C10: reset_daily_todos changes only tasks that were completed and recur
\* today (daily, or weekly with today's weekday); after a run in which no
\* store request failed all of those have completed = FALSE; one-off tasks
\* and weekly tasks not scheduled today keep their completed flag.
C10_ResetRecurringFrame ==
    (ret.fn = "reset" /\ ret.t = "return") =>
        \A i \in TaskIds :
            /\ ~RecursToday(i, ret.t0) =>
                   tasks[i].completed = ret.before[i].completed
            /\ tasks[i].completed => ret.before[i].completed
            /\ (ret.clean /\ RecursToday(i, ret.t0)) => ~tasks[i].completed

C10_Witness ==
    /\ ret.fn = "reset" /\ ret.t = "return" /\ ret.clean
    /\ \E i \in TaskIds : RecursToday(i, ret.t0) /\ ret.before[i].completed
                           /\ ~tasks[i].completed
    /\ \E i \in TaskIds : Profile(i).recurrence = "weekly"
                           /\ ~RecursToday(i, ret.t0) /\ tasks[i].completed
    /\ \E i \in TaskIds : Profile(i).recurrence = "none" /\ tasks[i].completed

\* The tasks the reset changed from completed to not completed.
ResetDone(before, tk) == { i \in TaskIds : before[i].completed /\ ~tk[i].completed }

\* C11: in reset_daily_todos the failure of one task's update does not end
\* the batch: whatever the outcome of an update, the next task of the batch
\* is updated next; an update that succeeds resets its task; the call
\* returns (never raises) after the last task, and the tasks counted as
\* reset are reset.
C11_ResetFailureIsolation ==
    [][ /\ (op.fn = "reset" /\ op.pc = "gather") =>
             /\ lastReq'.result.t = "return" => ~tasks'[Head(op.pending)].completed
             /\ \A i \in TaskIds \ {Head(op.pending)} : tasks'[i] = tasks[i]
             /\ IF Tail(op.pending) # << >>
                THEN /\ op'.fn = "reset" /\ op'.pc = "gather"
                     /\ op'.pending = Tail(op.pending)
                ELSE /\ op'.fn = "none"
                     /\ ret'.fn = "reset" /\ ret'.t = "return"
        /\ ret'.fn = "reset" =>
             /\ ret'.t = "return"
             /\ ret'.count <= Cardinality(ResetDone(ret'.before, tasks')) ]_vars

C11_Witness ==
    /\ ret.fn = "reset" /\ ret.t = "return" /\ ~ret.clean /\ ret.count >= 1
    /\ lastReq.result.t = "return"
    /\ \E i, k \in TaskIds :
         /\ i < k
         /\ RecursToday(i, ret.t0) /\ RecursToday(k, ret.t0)
         /\ ret.before[i].completed /\ tasks[i].completed
         /\ ret.before[k].completed /\ ~tasks[k].completed

\* ------------------------------------------------------------------------
\* Specification of the store client alone: requests against every script
\* ------------------------------------------------------------------------
\* _request(method, endpoint) is called and runs to its end while the store
\* answers as the script plans.
DoRequest ==
    /\ script # << >>
    /\ lastReq = NoRun
    /\ lastReq' = RunFrom(script, 0)
    /\ UNCHANGED <<now, tasks, op, ret, script, pages, job, fired, lastSent, passLog, sched, schedLog, monVars, auxVars>>

InitReq ==
    /\ now = 1
    /\ tasks = [i \in TaskIds |-> [completed |-> FALSE, last_reminded |-> NoDate]]
    /\ op = Idle
    /\ ret = NoRet
    /\ lastReq = NoRun
    /\ script \in Scripts
    /\ pages = << >>
    /\ job = NoJob
    /\ fired = {}
    /\ lastSent = [i \in TaskIds |-> NoDate]
    /\ passLog = NoPass
    /\ sched = NoSched
    /\ schedLog = NoSchedLog
    /\ NoMonitor
    /\ NoAux

NextReq == DoRequest

SpecReq == InitReq /\ [][NextReq]_vars

Requested == script # << >> /\ lastReq # NoRun
Attempts == Len(lastReq.consumed)
Failed == lastReq.result.t = "raise"
AllTransient == \A k \in 1..RETRY_ATTEMPTS : IsTransient(script[k])

\* C2: a request whose every attempt ends in a transient failure performs
\* exactly RETRY_ATTEMPTS attempts and then fails.
C2_TransientExactlyMaxAttempts ==
    (Requested /\ AllTransient) => (Attempts = RETRY_ATTEMPTS /\ Failed)

\* C3: a request whose first response has a permanent error status performs
\* exactly one attempt and fails at once, with no backoff wait.
C3_PermanentOneAttempt ==
    (Requested /\ IsPermanent(script[1])) =>
        (Attempts = 1 /\ Failed /\ lastReq.slept = << >>)

C3_Witness ==
    /\ Requested /\ IsPermanent(script[1])
    /\ IsTransient(script[2]) /\ IsOk(script[3])
    /\ Attempts = 1 /\ Failed

\* C4: when every attempt of a request fails transiently the request fails
\* with a NotionAPIError whose code is "max_retries_exceeded".
C4_MaxRetriesExceeded ==
    (Requested /\ AllTransient) =>
        /\ Failed
        /\ lastReq.result.exc.type = "NotionAPIError"
        /\ lastReq.result.exc.code = "max_retries_exceeded"

\* C5: a request returns the parsed body or fails with a NotionAPIError; no
\* exception of another type leaves _request.
C5_OnlyStoreErrorEscapes ==
    Requested =>
        \/ lastReq.result.t = "return"
        \/ Failed /\ lastReq.result.exc.type = "NotionAPIError"

\* C6: if attempts 1..k fail transiently (k < RETRY_ATTEMPTS) and attempt
\* k+1 receives a 2xx response with a JSON body, the request returns the body
\* of that response.
C6_RetryRecovers ==
    Requested =>
        \A k \in 1..(RETRY_ATTEMPTS - 1) :
            ((\A j \in 1..k : IsTransient(script[j])) /\ IsOk(script[k + 1])) =>
                /\ lastReq.result.t = "return"
                /\ Attempts = k + 1
                /\ lastReq.consumed[Attempts] = script[k + 1]

\* C36: when the store answers the last attempt of a request with an error
\* status and an error code and the request fails, the NotionAPIError that
\* reaches the caller has that status and that code.
C36_StoreErrorPassedOn ==
    (Requested /\ Failed) =>
        LET o == lastReq.consumed[Attempts] IN
          (o.kind = "status" /\ ~IsSuccess(o.status) /\ o.json_ok) =>
              /\ lastReq.result.exc.type = "NotionAPIError"
              /\ lastReq.result.exc.status = o.status
              /\ lastReq.result.exc.code = o.code



\* ------------------------------------------------------------------------
\* tasks/scheduler.py: setup_scheduler, shutdown_scheduler and the job table
\* ------------------------------------------------------------------------
\* The schedulers setup_scheduler may create in one run of the model.
MaxInstances == 3

\* The add_job calls of setup_scheduler in order (lines 310-329): the id,
\* the callback bound by partial(...) and replace_existing.
Job(id, func, arg) == [id |-> id, func |-> func, arg |-> arg, replace_existing |-> TRUE]

JobRegistrations == <<
    Job("_job_send_kiyo_morning", "_job_send_kiyo_message", "morning"),
    Job("_job_send_kiyo_lunch", "_job_send_kiyo_message", "noon"),
    Job("_job_send_kiyo_evening", "_job_send_kiyo_message", "evening"),
    Job("_job_send_kiyo_night", "_job_send_kiyo_message", "night"),
    Job("_job_send_daily_summary", "_job_send_daily_summary", ""),
    Job("_job_reset_daily_todos", "_job_reset_daily_todos", ""),
    Job("_job_check_reminders", "_job_check_reminders", ""),
    Job("_job_tb_reminder_morning", "_job_send_timeblock_reminder", "morning"),
    Job("_job_tb_reminder_lunch", "_job_send_timeblock_reminder", "noon"),
    Job("_job_tb_reminder_evening", "_job_send_timeblock_reminder", "evening"),
    Job("_job_tb_reminder_night", "_job_send_timeblock_reminder", "night"),
    Job("_job_tb_reminder_misc", "_job_send_timeblock_reminder", "misc") >>

JobIds == { JobRegistrations[k].id : k \in 1..Len(JobRegistrations) }

\* AsyncIOScheduler(...): a scheduler that is not started; jobs added to it
\* wait in pending until start().
NewScheduler == [state |-> "new", pending |-> << >>, jobs |-> << >>]

\* _scheduler.add_job(..., id=..., replace_existing=True) on a scheduler
\* that is not running.
AddJob(s, j) == [s EXCEPT !.pending = Append(@, j)]

RECURSIVE AddJobs(_, _)
AddJobs(s, js) == IF js = << >> THEN s ELSE AddJobs(AddJob(s, Head(js)), Tail(js))

HasId(store, id) == \E k \in 1..Len(store) : store[k].id = id

\* The job store takes a job: a job with a new id is added; with an id the
\* store holds, the job replaces the one held when replace_existing is set,
\* and the store refuses it (ConflictingIdError) otherwise.
RealAddJob(store, j) ==
    IF ~HasId(store, j.id)
    THEN [ok |-> TRUE, jobs |-> Append(store, j)]
    ELSE IF j.replace_existing
         THEN [ok |-> TRUE,
               jobs |-> [k \in 1..Len(store) |->
                           IF store[k].id = j.id THEN j ELSE store[k]]]
         ELSE [ok |-> FALSE, jobs |-> store]

RECURSIVE AddPending(_, _)
AddPending(store, js) ==
    IF js = << >>
    THEN [ok |-> TRUE, jobs |-> store]
    ELSE LET r == RealAddJob(store, Head(js)) IN
           IF r.ok THEN AddPending(r.jobs, Tail(js)) ELSE r

\* _scheduler.start(): the pending jobs enter the store and the scheduler
\* runs; start_ok is FALSE when start() raises (no usable event loop).
Start(s, start_ok) ==
    LET r == AddPending(s.jobs, s.pending) IN
      IF start_ok /\ r.ok
      THEN [state |-> "running", pending |-> << >>, jobs |-> r.jobs]
      ELSE s

Running(sd) == sd.scheduler # 0 /\ sd.instances[sd.scheduler].state = "running"

SetupSchedulerNoGuard(sd, start_ok) ==
    LET s == Start(AddJobs(NewScheduler, JobRegistrations), start_ok)
        k == Len(sd.instances) + 1
    IN [sd EXCEPT !.instances = Append(@, s),
                  !.scheduler = IF s.state = "running" THEN k ELSE 0]

SetupSchedulerReuse(sd, start_ok) ==
    IF Running(sd)
    THEN sd
    ELSE IF sd.instances # << >>
         THEN LET k == Len(sd.instances) IN
                [sd EXCEPT !.instances[k].state =
                                IF start_ok THEN "running" ELSE @,
                           !.scheduler = IF start_ok THEN k ELSE 0]
         ELSE LET s == Start(AddJobs(NewScheduler, JobRegistrations), start_ok)
              IN [sd EXCEPT !.instances = Append(@, s),
                            !.scheduler = IF s.state = "running" THEN 1 ELSE 0]

\* setup_scheduler(bot): `sd` before the call, start_ok as above; the
\* except clause (335-339) sets _scheduler back to None.
SetupScheduler(sd, start_ok) ==
    IF Running(sd)
    THEN sd
    ELSE LET s == Start(AddJobs(NewScheduler, JobRegistrations), start_ok)
             k == Len(sd.instances) + 1
         IN [sd EXCEPT !.instances = Append(@, s),
                       !.scheduler = IF s.state = "running" THEN k ELSE 0]

ShutdownSchedulerNoStop(sd) ==
    IF Running(sd) THEN [sd EXCEPT !.scheduler = 0] ELSE sd

\* shutdown_scheduler(): _scheduler.shutdown() stops the scheduler before
\* anything in it can raise, and the finally clause sets _scheduler to None.
ShutdownScheduler(sd) ==
    IF Running(sd)
    THEN [sd EXCEPT !.instances[sd.scheduler].state = "shutdown",
                    !.scheduler = 0]
    ELSE sd

\* The callbacks invoked when the trigger of job id comes due: one per job
\* with that id in the store of a running scheduler; the scheduler that
\* invokes each.
RECURSIVE Invoked(_, _, _)
Invoked(insts, k, id) ==
    IF k > Len(insts)
    THEN << >>
    ELSE (IF insts[k].state = "running"
          THEN [n \in 1..Len(SelectSeq(insts[k].jobs, LAMBDA j : j.id = id)) |-> k]
          ELSE << >>) \o Invoked(insts, k + 1, id)

unchangedBySched ==
    <<now, tasks, op, ret, lastReq, script, pages, job, fired, lastSent, passLog,
      monVars, auxVars>>

unchangedBySetupHook ==
    <<now, tasks, op, ret, lastReq, script, pages, job, fired, lastSent, passLog,
      cfg, last_user_active_time, tick, auxVars>>

\* A call of setup_scheduler (one that creates a scheduler stays within
\* MaxInstances).
CallSetupScheduler(start_ok) ==
    /\ Running(sched) \/ Len(sched.instances) < MaxInstances
    /\ sched' = SetupScheduler(sched, start_ok)
    /\ schedLog' = [NoSchedLog EXCEPT !.call = "setup", !.warned = Running(sched)]
    /\ UNCHANGED unchangedBySched

\* KiyoBot.setup_hook: it loads the cogs, starts the scheduler (lines
\* 223-231) and starts the inactivity loop (237-243); the host runs it
\* before it connects, so before it is ready.
SetupHook(start_ok) ==
    /\ ~bot.ready /\ ~bot.closed
    /\ \/ sched.scheduler_initialized
       \/ Running(sched)
       \/ Len(sched.instances) < MaxInstances
    /\ loop' = StartInitiateChecker(loop, cfg, now)
    /\ bot' = [bot EXCEPT !.setup = TRUE,
                          !.initiate_checker_loop_task =
                              @ \/ StartInitiateCheckerReturns(loop, cfg)]
    /\ sched' = IF ~sched.scheduler_initialized
                THEN [SetupScheduler(sched, start_ok) EXCEPT
                         !.scheduler_initialized = TRUE]
                ELSE sched
    /\ schedLog' = [NoSchedLog EXCEPT
                       !.call = "setup_hook",
                       !.warned = ~sched.scheduler_initialized /\ Running(sched)]
    /\ UNCHANGED unchangedBySetupHook

\* A call of shutdown_scheduler; KiyoBot.close calls it (line 261).
CallShutdownScheduler ==
    /\ sched' = ShutdownScheduler(sched)
    /\ schedLog' = [NoSchedLog EXCEPT !.call = "shutdown"]
    /\ UNCHANGED unchangedBySched

\* The trigger of the job registered under id comes due.
Fire(id) ==
    /\ schedLog' = [NoSchedLog EXCEPT !.call = "fire", !.id = id,
                                      !.by = Invoked(sched.instances, 1, id)]
    /\ UNCHANGED sched
    /\ UNCHANGED unchangedBySched

\* The CronTrigger of each add_job (lines 310-329): hour is 0 - 1 for a
\* trigger with no hour field; every is the step of minute='*/5', 0 for a
\* fixed minute.
Cron(hour, minute, every) == [hour |-> hour, minute |-> minute, every |-> every]

CronOf(id) ==
    CASE id = "_job_send_kiyo_morning" -> Cron(9, 0, 0)
      [] id = "_job_send_kiyo_lunch" -> Cron(12, 0, 0)
      [] id = "_job_send_kiyo_evening" -> Cron(18, 0, 0)
      [] id = "_job_send_kiyo_night" -> Cron(23, 0, 0)
      [] id = "_job_send_daily_summary" -> Cron(2, 0, 0)
      [] id = "_job_reset_daily_todos" -> Cron(0, 1, 0)
      [] id = "_job_check_reminders" -> Cron(0 - 1, 0, 5)
      [] id = "_job_tb_reminder_morning" -> Cron(9, 5, 0)
      [] id = "_job_tb_reminder_lunch" -> Cron(12, 5, 0)
      [] id = "_job_tb_reminder_evening" -> Cron(18, 5, 0)
      [] id = "_job_tb_reminder_night" -> Cron(21, 0, 0)
      [] id = "_job_tb_reminder_misc" -> Cron(14, 15, 0)

\* Whether the trigger of job id fires at minute m of the day.
Due(id, m) ==
    LET c == CronOf(id) IN
      IF c.every # 0
      THEN (m % 60) % c.every = 0
      ELSE m = c.hour * 60 + c.minute

\* The scheduler after the callback of job id has run; raised tells that
\* the callback let an exception out.  Every job body catches its
\* exceptions (try/except Exception, lines 66-79, 96-137, 144-147, 159-212,
\* 221-292) and what a callback raises all the same ends in the executor
\* that runs it, which logs it: the job stays in the table.
AfterJobStopsScheduler(sd, k, id, raised) ==
    IF raised
    THEN [sd EXCEPT !.instances[k].state = "shutdown", !.scheduler = 0]
    ELSE sd

AfterJob(sd, k, id, raised) == sd

\* The scheduler k runs the callbacks of the jobs of ids that are in its
\* table, one after the other, as long as it is running.
RECURSIVE RunDue(_, _, _, _)
RunDue(sd, k, ids, raising) ==
    IF ids = << >>
    THEN [sched |-> sd, ran |-> << >>]
    ELSE LET id == Head(ids) IN
           IF sd.instances[k].state = "running" /\ HasId(sd.instances[k].jobs, id)
           THEN LET r == RunDue(AfterJob(sd, k, id, id \in raising), k,
                                Tail(ids), raising)
                IN [sched |-> r.sched, ran |-> <<id>> \o r.ran]
           ELSE RunDue(sd, k, Tail(ids), raising)

\* The ids of JobRegistrations due at minute m, in registration order.
DueIds(m) ==
    SelectSeq([k \in 1..Len(JobRegistrations) |-> JobRegistrations[k].id],
              LAMBDA id : Due(id, m))

DueSet(m) == { DueIds(m)[k] : k \in 1..Len(DueIds(m)) }

\* Minutes of the day at which the model lets the scheduler wake up.
FireTimes ==
    { 1, 2 * 60, 9 * 60, 9 * 60 + 3, 9 * 60 + 5, 12 * 60, 14 * 60 + 15,
      21 * 60, 23 * 60 }

\* The running scheduler wakes up at minute m and runs the due jobs; the
\* callbacks of the jobs in `raising` raise.
ProcessJobs(m, raising) ==
    /\ Running(sched)
    /\ raising \subseteq DueSet(m)
    /\ LET r == RunDue(sched, sched.scheduler, DueIds(m), raising) IN
         /\ sched' = r.sched
         /\ schedLog' = [NoSchedLog EXCEPT !.call = "process", !.t = m,
                                           !.ran = r.ran, !.raised = raising]
    /\ UNCHANGED unchangedBySched

InitSched ==
    /\ now = 1
    /\ tasks = [i \in TaskIds |-> [completed |-> FALSE, last_reminded |-> NoDate]]
    /\ op = Idle
    /\ ret = NoRet
    /\ lastReq = NoRun
    /\ script = << >>
    /\ pages = << >>
    /\ job = NoJob
    /\ fired = {}
    /\ lastSent = [i \in TaskIds |-> NoDate]
    /\ passLog = NoPass
    /\ sched = NoSched
    /\ schedLog = NoSchedLog
    /\ NoMonitor
    /\ NoAux

NextSched ==
    \/ \E start_ok \in BOOLEAN : CallSetupScheduler(start_ok)
    \/ \E start_ok \in BOOLEAN : SetupHook(start_ok)
    \/ CallShutdownScheduler
    \/ \E id \in JobIds : Fire(id)
    \/ \E m \in FireTimes : \E raising \in SUBSET DueSet(m) : ProcessJobs(m, raising)

SpecSched == InitSched /\ [][NextSched]_vars


RunningInstances(sd) ==
    { k \in 1..Len(sd.instances) : sd.instances[k].state = "running" }

\* C18: a call of setup_scheduler while a scheduler is running changes
\* neither _scheduler nor any scheduler or its job table, creates no
\* scheduler and registers nothing; at most one scheduler is ever running.
C18_StartWhileRunningNoOp ==
    /\ [][ (Running(sched) /\ schedLog'.call \in {"setup", "setup_hook"}) =>
             /\ sched'.scheduler = sched.scheduler
             /\ sched'.instances = sched.instances ]_vars
    /\ [](Cardinality(RunningInstances(sched)) <= 1)

C18_Witness ==
    /\ schedLog.call = "setup" /\ schedLog.warned
    /\ Running(sched)
    /\ Len(sched.instances) = 1
    /\ Len(sched.instances[1].jobs) = Len(JobRegistrations)

\* C19 as claimed: once shutdown_scheduler has stopped a scheduler, no job
\* fires any more and no call of setup_scheduler makes a scheduler run.
C19_StoppedIsTerminal ==
    (\E k \in 1..Len(sched.instances) : sched.instances[k].state = "shutdown") =>
        /\ ~Running(sched)
        /\ schedLog.call = "fire" => schedLog.by = << >>

\* C19 as amended: a scheduler that was shut down stays shut down and no job
\* of its table fires again; a later call of setup_scheduler does not bring
\* it back but creates a new scheduler with the job table registered anew.
C19_ShutdownInstanceIsTerminal ==
    /\ [][ \A k \in 1..Len(sched.instances) :
             sched.instances[k].state = "shutdown" =>
                 /\ Len(sched'.instances) >= k
                 /\ sched'.instances[k] = sched.instances[k] ]_vars
    /\ [][ (~Running(sched) /\ Running(sched')) =>
             /\ sched'.scheduler = Len(sched.instances) + 1
             /\ Len(sched'.instances[sched'.scheduler].jobs) = Len(JobRegistrations) ]_vars
    /\ [](schedLog.call = "fire" =>
            \A n \in 1..Len(schedLog.by) :
               sched.instances[schedLog.by[n]].state = "running")
    /\ [](sched.scheduler # 0 => Running(sched))

C19_Witness ==
    /\ Len(sched.instances) = 2
    /\ sched.instances[1].state = "shutdown"
    /\ sched.scheduler = 2 /\ Running(sched)
    /\ schedLog.call = "fire" /\ schedLog.by = <<2>>

MaxTicks == 5

\* The settings the model runs the monitor under: the defaults, a short
\* interval with the window 23:00-01:00 and no minimal gap, and the
\* defaults without USER_ID.
Configs ==
    { DefaultConfig, Config(3, 23, 1, 0, TRUE), Config(480, 11, 1, 24, FALSE) }

\* The times of day the process starts at.
StartTimes == { 11 * 60, 22 * 60 + 58 }

\* Minutes an await of an iteration takes.
AwaitMinutes == { 0, 1 }

\* What an awaited collaborator call gives: a value, None (or an empty
\* text), or an exception.
AwaitResults == { "ok", "none", "raise" }

\* Line 78: gap_hours < min_gap, the gap being time_gap.total_seconds() /
\* 3600 and the clock counting minutes.
GapTooSmallMinutes(t, last_active_time, min_gap) == t - last_active_time < min_gap

GapTooSmall(t, last_active_time, min_gap) == t - last_active_time < min_gap * 60

\* The try statement of lines 58-119 holds every await of the iteration,
\* and its except clauses (NotFound, Forbidden, Exception) only log.
InTryAfterFetchUser(pc) == pc # "fetch_user"

InTry(pc) == TRUE

\* The iteration ends: by a return, by an except clause ("caught"), by an
\* exception that leaves the coroutine ("escaped"), after the send
\* ("sent"), or by the CancelledError ("cancelled").
EndTick(tk, outcome) == [tk EXCEPT !.pc = "idle", !.outcome = outcome]

\* The await at tk.pc raises.
Raised(tk) == EndTick(tk, IF InTry(tk.pc) THEN "caught" ELSE "escaped")

\* The iteration calls a collaborator and waits for it.
Call(tk, name) == [tk EXCEPT !.pc = name, !.calls = Append(@, name)]

AfterSendRetry(tk, result) ==
    IF result = "raise"
    THEN IF Len(SelectSeq(tk.calls, LAMBDA c : c = "send")) < 2
         THEN Call(tk, "send")
         ELSE Raised(tk)
    ELSE EndTick(tk, "sent")

\* Lines 106-107: dm_channel.send has come back.
AfterSend(tk, result) ==
    IF result = "raise" THEN Raised(tk) ELSE EndTick(tk, "sent")

\* The iteration tk, suspended at the await tk.pc, goes on when the await
\* gives `result` (lines 60-107); last_active is what get_last_active()
\* returns then.
Resumed(tk, c, result, last_active) ==
    IF result = "raise" /\ tk.pc # "send"
    THEN Raised(tk)
    ELSE CASE tk.pc = "fetch_user" ->
                IF result = "none"
                THEN EndTick(tk, "returned")
                ELSE LET tk2 == [tk EXCEPT !.last_active_time = last_active] IN
                       IF GapTooSmall(tk.now, last_active, c.INITIATE_MIN_GAP_HOURS)
                       THEN EndTick(tk2, "returned")
                       ELSE Call(tk2, "fetch_recent_memories")
           [] tk.pc = "fetch_recent_memories" ->
                Call(tk, "fetch_recent_observations")
           [] tk.pc = "fetch_recent_observations" ->
                Call(tk, "generate_initiate_message")
           [] tk.pc = "generate_initiate_message" ->
                IF result = "none"
                THEN EndTick(tk, "returned")
                ELSE Call(tk, "create_dm")
           [] tk.pc = "create_dm" ->
                IF result = "none"
                THEN EndTick(tk, "returned")
                ELSE Call(tk, "send")
           [] tk.pc = "send" -> AfterSend(tk, result)

\* tasks.Loop after an iteration that ended at time t: an exception that
\* left the coroutine ends the loop, stop() ends it after the iteration;
\* the next iteration is due an interval after this one was, or at once
\* when this one took longer.
AfterIteration(lp, outcome, t) ==
    [lp EXCEPT !.current_loop = @ + 1,
               !.next_iteration = IF t > @ THEN t ELSE @,
               !.task = IF outcome = "escaped" THEN "failed"
                        ELSE IF @ = "stopping" THEN "stopped" ELSE @]

ActiveAfterTickUpdated(last_active, tk, t) ==
    IF tk.outcome = "sent" THEN t ELSE last_active

\* Lines 106-110: the activity state after the iteration; the call of
\* update_last_active() after the send is commented out.
ActiveAfterTick(last_active, tk, t) == last_active

UpdateLastActiveKeepFirst(last_active, t) == last_active

\* activity_tracker.update_last_active() at time t (lines 12-15).
UpdateLastActive(last_active, t) == t

\* activity_tracker.get_last_active() (lines 19-22).
GetLastActive(last_active) == last_active

unchangedByMon ==
    <<tasks, op, ret, lastReq, script, pages, job, fired, lastSent, passLog,
      auxVars>>

\* An iteration of _check_initiate_message_loop begins when it is due
\* (lines 31-60): up to the await of fetch_user.
TickBegin ==
    /\ loop.task = "running"
    /\ tick.pc = "idle"
    /\ loop.current_loop < MaxTicks
    /\ LET t == loop.next_iteration
           tk == [NoTick EXCEPT !.n = tick.n + 1, !.now = t,
                                !.outcome = "running",
                                !.after_sent = tick.outcome = "sent"]
           lp == [loop EXCEPT !.next_iteration =
                                  t + cfg.INITIATE_CHECK_INTERVAL_MINUTES]
       IN /\ now' = t
          /\ IF ~cfg.TARGET_USER_ID
             THEN /\ tick' = [EndTick(tk, "returned") EXCEPT !.ended = t]
                  /\ loop' = [loop EXCEPT !.task = "cancelled"]
             ELSE IF ~IsAllowedTime(cfg.INITIATE_ALLOWED_START_HOUR,
                                    cfg.INITIATE_ALLOWED_END_HOUR, HourOf(t))
             THEN /\ tick' = [EndTick(tk, "returned") EXCEPT !.ended = t]
                  /\ loop' = AfterIteration(lp, "returned", t)
             ELSE /\ tick' = Call([tk EXCEPT !.is_allowed_time = TRUE],
                                  "fetch_user")
                  /\ loop' = lp
    /\ UNCHANGED <<cfg, last_user_active_time, bot, sched, schedLog>>
    /\ UNCHANGED unchangedByMon

\* The await the iteration is suspended at completes after dt minutes and
\* the iteration runs to its next await or to its end.
Resume(result, dt) ==
    /\ loop.task \in {"running", "stopping"}
    /\ tick.pc # "idle"
    /\ now' = now + dt
    /\ LET tk == Resumed(tick, cfg, result, GetLastActive(last_user_active_time)) IN
         IF tk.pc = "idle"
         THEN /\ tick' = [tk EXCEPT !.ended = now']
              /\ loop' = AfterIteration(loop, tk.outcome, now')
              /\ last_user_active_time' =
                     ActiveAfterTick(last_user_active_time, tk, now')
         ELSE /\ tick' = tk
              /\ UNCHANGED <<loop, last_user_active_time>>
    /\ UNCHANGED <<cfg, bot, sched, schedLog>>
    /\ UNCHANGED unchangedByMon

\* The CancelledError reaches the task of the loop at its suspension point:
\* except Exception does not catch it, the task ends.
CancelDelivered ==
    /\ loop.task = "cancelling"
    /\ loop' = [loop EXCEPT !.task = "cancelled"]
    /\ tick' = IF tick.pc # "idle"
               THEN [EndTick(tick, "cancelled") EXCEPT !.ended = now]
               ELSE tick
    /\ UNCHANGED <<now, cfg, last_user_active_time, bot, sched, schedLog>>
    /\ UNCHANGED unchangedByMon

\* GeneralCog.on_message for a message of the user that passes the filters
\* of lines 96-118: bot.update_last_interaction_time() (line 120) and
\* update_last_active() (line 121).  The cog is loaded by setup_hook.
OnMessage ==
    /\ bot.setup /\ ~bot.closed
    /\ bot' = [bot EXCEPT !.last_interaction_time = now]
    /\ last_user_active_time' = UpdateLastActive(last_user_active_time, now)
    /\ UNCHANGED <<now, cfg, loop, tick, sched, schedLog>>
    /\ UNCHANGED unchangedByMon

\* The host signals readiness (on_ready).
Ready ==
    /\ bot.setup /\ ~bot.ready /\ ~bot.closed
    /\ bot' = [bot EXCEPT !.ready = TRUE]
    /\ UNCHANGED <<now, cfg, last_user_active_time, loop, tick, sched, schedLog>>
    /\ UNCHANGED unchangedByMon

\* KiyoBot.close (lines 256-277): it stops the inactivity loop if it holds
\* a running one and shuts the scheduler down.
Close ==
    /\ ~bot.closed
    /\ loop' = IF bot.initiate_checker_loop_task /\ IsRunning(loop)
               THEN StopInitiateChecker(loop)
               ELSE loop
    /\ sched' = ShutdownScheduler(sched)
    /\ schedLog' = [NoSchedLog EXCEPT !.call = "close"]
    /\ bot' = [bot EXCEPT !.closed = TRUE]
    /\ UNCHANGED <<now, cfg, last_user_active_time, tick>>
    /\ UNCHANGED unchangedByMon

InitMon ==
    /\ now \in StartTimes
    /\ tasks = [i \in TaskIds |-> [completed |-> FALSE, last_reminded |-> NoDate]]
    /\ op = Idle
    /\ ret = NoRet
    /\ lastReq = NoRun
    /\ script = << >>
    /\ pages = << >>
    /\ job = NoJob
    /\ fired = {}
    /\ lastSent = [i \in TaskIds |-> NoDate]
    /\ passLog = NoPass
    /\ sched = NoSched
    /\ schedLog = NoSchedLog
    /\ cfg \in Configs
    /\ last_user_active_time = now
    /\ loop = NoLoop
    /\ tick = NoTick
    /\ bot = NewBot(now)
    /\ NoAux

NextMon ==
    \/ \E start_ok \in BOOLEAN : SetupHook(start_ok)
    \/ Ready
    \/ Close
    \/ TickBegin
    \/ \E result \in AwaitResults, dt \in AwaitMinutes : Resume(result, dt)
    \/ CancelDelivered
    \/ OnMessage

SpecMon == InitMon /\ [][NextMon]_vars

\* The window test alone: every window and every hour of the day.
Hours == 0..23

InitWin ==
    /\ now \in { h * 60 : h \in Hours }
    /\ tasks = [i \in TaskIds |-> [completed |-> FALSE, last_reminded |-> NoDate]]
    /\ op = Idle
    /\ ret = NoRet
    /\ lastReq = NoRun
    /\ script = << >>
    /\ pages = << >>
    /\ job = NoJob
    /\ fired = {}
    /\ lastSent = [i \in TaskIds |-> NoDate]
    /\ passLog = NoPass
    /\ sched = NoSched
    /\ schedLog = NoSchedLog
    /\ cfg \in { Config(480, start_h, end_h, 24, TRUE) : start_h, end_h \in Hours }
    /\ last_user_active_time = now
    /\ loop = StartInitiateChecker(NoLoop, cfg, now)
    /\ tick = NoTick
    /\ bot = [NewBot(now) EXCEPT !.setup = TRUE, !.initiate_checker_loop_task = TRUE]
    /\ NoAux

NextWin == TickBegin

SpecWin == InitWin /\ [][NextWin]_vars


\* Claims about the inactivity monitor
\* ------------------------------------------------------------------------
\* C22: for every start, end and hour in 0..23 the iteration finds the hour
\* inside the window iff (start > end and (hour >= start or hour < end)) or
\* (start <= end and start <= hour < end); for start = 23, end = 1 the
\* hours 23 and 0 are inside and the hours 1..22 outside.
C22_AllowedWindow ==
    tick.n > 0 =>
      LET start == cfg.INITIATE_ALLOWED_START_HOUR
          end == cfg.INITIATE_ALLOWED_END_HOUR
          hour == HourOf(tick.now)
      IN /\ tick.is_allowed_time <=>
               \/ start > end /\ (hour >= start \/ hour < end)
               \/ start <= end /\ start <= hour /\ hour < end
         /\ (start = 23 /\ end = 1) =>
               /\ hour \in {23, 0} => tick.is_allowed_time
               /\ hour \in 1..22 => ~tick.is_allowed_time

C22_Witness ==
    /\ tick.n = 1
    /\ cfg.INITIATE_ALLOWED_START_HOUR = 23
    /\ cfg.INITIATE_ALLOWED_END_HOUR = 1
    /\ HourOf(tick.now) = 0
    /\ tick.is_allowed_time
    /\ tick.pc = "fetch_user"


\* The collaborator calls the iteration in progress (or the last one) made.
Made == { tick.calls[k] : k \in 1..Len(tick.calls) }

\* The calls of an outreach: context fetch, text generation, delivery.
Outreach ==
    { "fetch_recent_memories", "fetch_recent_observations",
      "generate_initiate_message", "create_dm", "send" }

\* The hour of the iteration is inside the allowed window.
InsideWindow ==
    LET start == cfg.INITIATE_ALLOWED_START_HOUR
        end == cfg.INITIATE_ALLOWED_END_HOUR
        hour == HourOf(tick.now)
    IN \/ start > end /\ (hour >= start \/ hour < end)
       \/ start <= end /\ start <= hour /\ hour < end

\* The iteration read the activity state and its gap is at least
\* INITIATE_MIN_GAP_HOURS.
GapReached ==
    /\ tick.last_active_time # NoTime
    /\ tick.now - tick.last_active_time >= cfg.INITIATE_MIN_GAP_HOURS * 60

\* C23: an iteration fetches context, generates a text or sends only if
\* its hour is inside the allowed window and its time minus the activity
\* state it read is at least INITIATE_MIN_GAP_HOURS; an iteration outside
\* the window calls no collaborator at all, one with a smaller gap none of
\* the context fetch, the generator and the send.
C23_OutreachGating ==
    /\ Made \cap Outreach # {} => InsideWindow /\ GapReached
    /\ tick.n > 0 /\ ~InsideWindow => tick.calls = << >>
    /\ tick.outcome = "sent" => InsideWindow /\ GapReached

C23_Witness ==
    /\ cfg = DefaultConfig
    /\ tick.outcome = "sent"
    /\ tick.calls[Len(tick.calls)] = "send"
    /\ tick.now - tick.last_active_time = 24 * 60


\* How many times the iteration called the collaborator c.
Count(c) == Len(SelectSeq(tick.calls, LAMBDA x : x = c))

\* C24: an iteration whose hour is inside the window and whose gap is at
\* least INITIATE_MIN_GAP_HOURS makes one outreach attempt: it begins the
\* context fetch once, calls each collaborator of the outreach at most
\* once, and the send at most once (once when it ends with the delivery).
C24_OneOutreachPerTick ==
    (tick.n > 0 /\ InsideWindow /\ GapReached) =>
        /\ Count("fetch_recent_memories") = 1
        /\ \A c \in Outreach : Count(c) <= 1
        /\ tick.outcome = "sent" => Count("send") = 1

C24_Witness ==
    /\ InsideWindow /\ GapReached
    /\ tick.outcome = "caught"
    /\ tick.calls[Len(tick.calls)] = "send"
    /\ Count("send") = 1


\* C25: no step of an iteration of the loop changes the activity state,
\* whether or not the iteration sends; the activity state changes only by
\* the ingestion of a user message, which sets it to the time of the
\* message.
C25_TickLeavesActivity ==
    [][ /\ (tick' # tick \/ loop' # loop) =>
              last_user_active_time' = last_user_active_time
        /\ last_user_active_time' # last_user_active_time =>
              /\ bot.setup /\ ~bot.closed
              /\ last_user_active_time' = now
              /\ UNCHANGED <<now, tick, loop>> ]_vars

C25_Witness ==
    /\ cfg = DefaultConfig
    /\ tick.outcome = "sent"
    /\ tick.ended > tick.now
    /\ last_user_active_time = tick.last_active_time


\* C35: a send does not close the quiet period.  Whenever an iteration
\* inside the window reads the activity state and its time is at least
\* INITIATE_MIN_GAP_HOURS after the last message of the user, its gap is
\* reached, whether or not the iterations before it sent: it starts another
\* outreach and does not return at the gap test, so it sends unless a
\* collaborator fails or gives nothing.
C35_QuietPeriodRefires ==
    (/\ tick.last_active_time # NoTick.last_active_time
     /\ tick.now - bot.last_interaction_time >=
            cfg.INITIATE_MIN_GAP_HOURS * 60) =>
        /\ InsideWindow
        /\ GapReached
        /\ "fetch_recent_memories" \in Made
        /\ tick.outcome = "returned" =>
              tick.calls[Len(tick.calls)] \in
                  {"generate_initiate_message", "create_dm"}

\* Two iterations in a row have sent in one quiet period of a day and more.
C35_Witness ==
    /\ cfg = DefaultConfig
    /\ tick.after_sent
    /\ tick.outcome = "sent"
    /\ bot.last_interaction_time = tick.last_active_time
    /\ tick.now - tick.last_active_time > 24 * 60


\* C26: the iteration that follows one that failed with an exception in the
\* context fetch, the text generation or the delivery begins no sooner
\* than five minutes after the failure.
C26_CooldownAfterFailure ==
    [][ (/\ tick.outcome = "caught"
         /\ tick.calls[Len(tick.calls)] \in Outreach
         /\ tick'.n = tick.n + 1) =>
            now' - tick.ended >= 5 ]_vars


C28_TicksOnlyWhenReady ==
    (tick.n > 0 \/ tick.calls # << >>) => bot.ready


\* C29: close() cancels the loop: once close() has run the loop is no
\* longer running, no iteration begins and no iteration calls a
\* collaborator (so no proactive message is sent); the iteration in
\* progress ends by the cancellation.
C29_CloseCancelsLoop ==
    [][ /\ bot'.closed => loop'.task \in {"none", "cancelling", "cancelled"}
        /\ bot.closed =>
              /\ tick'.n = tick.n
              /\ tick'.calls = tick.calls
              /\ tick'.outcome \in {tick.outcome, "cancelled"} ]_vars

C29_Witness ==
    /\ bot.closed
    /\ loop.task = "cancelled"
    /\ tick.outcome = "cancelled"
    /\ tick.calls[Len(tick.calls)] = "generate_initiate_message"


\* C30: the activity state is never absent; get_last_active returns the
\* time of the most recent ingestion of a user message (the one that also
\* set the host's last_interaction_time), or the time the process started
\* when there was none; the value never decreases.
C30_ActivityLastWriteWins ==
    [][ /\ GetLastActive(last_user_active_time) # NoTime
        /\ GetLastActive(last_user_active_time') # NoTime
        /\ GetLastActive(last_user_active_time) = bot.last_interaction_time
        /\ GetLastActive(last_user_active_time') = bot'.last_interaction_time
        /\ ~bot.setup => GetLastActive(last_user_active_time) = now
        /\ last_user_active_time' >= last_user_active_time ]_vars

C30_Witness ==
    /\ tick.n >= 2
    /\ tick.last_active_time \notin StartTimes \cup {NoTime}
    /\ last_user_active_time > tick.last_active_time
    /\ last_user_active_time = now


\* The parsers (utils/helpers.py)
\* ------------------------------------------------------------------------
\* Reference days the model parses against, from Wednesday 2024-01-10 on.
RefDays == 7
FirstRefDay == 9
RefDates == FirstRefDay..(FirstRefDay + RefDays - 1)

\* The date part of a text: nothing, a relative keyword, a weekday name
\* (with or without its suffix) alone or after a qualifier written with or
\* without a space, or a word the parser does not know.
WeekdayNames ==
    { <<DayChars[k]>> \o sfx : k \in 1..7, sfx \in { << >>, Yoil } }
Qualifiers ==
    { << >>, NextWeekLiteral \o <<" ">>, QualNext \o <<WeekSyllable, " ">>,
      ThisWeekLiteral \o <<" ">>, QualThis \o <<WeekSyllable, " ">> }
DateParts ==
    { << >>, KwToday, KwTomorrow, KwDayAfterTomorrow, KwYesterday,
      KwDayBeforeYesterday, KwDayBeforeYesterdayShort, <<"Eon", "Jen", "Ga">> }
      \cup { q \o w : q \in Qualifiers, w \in WeekdayNames }

\* The time part of a text: nothing, "3pm", "15:00", and the Hangul way of
\* writing 3 in the afternoon.
TimeParts ==
    { << >>, <<"3", "p", "m">>, <<"1", "5", ":", "0", "0">>,
      <<"O", "Hu", " ", "3", "Si">> }

\* The texts given to parse_natural_date_string.
DateTexts ==
    { IF d = << >> \/ tm = << >> THEN d \o tm ELSE d \o <<" ">> \o tm :
        d \in DateParts, tm \in TimeParts }
      \cup { <<" ">> }

\* The texts given to parse_time_string.
TimeTexts ==
    { << >>, <<" ">>, <<"9", ":", "0", "0">>, <<"0", "9", ":", "0", "5">>,
      <<" ", "2", "3", ":", "5", "9">>, <<"2", "4", ":", "0", "0">>,
      <<"7", ":", "6", "0">>, <<"9", ":", "5">>, <<"2", "5", ":", "7", "7">>,
      <<"1", "2", ":", "3", "0", "p", "m">>, <<"3", "p", "m">>,
      <<"O", "Hu", " ", "3", "Si">>, <<":", "3", "0">> }

\* A call of parse_natural_date_string.
CallParseNaturalDateString ==
    /\ parseCall.fn = "parse_natural_date_string"
    /\ parseCall.result.t = "none"
    /\ parseCall' = [parseCall EXCEPT
                        !.result = ParseNaturalDateString(parseCall.text,
                                                          parseCall.ref)]
    /\ UNCHANGED <<now, tasks, op, ret, lastReq, script, pages, job, fired,
                   lastSent, passLog, sched, schedLog, monVars, pool>>

\* A call of parse_time_string.
CallParseTimeString ==
    /\ parseCall.fn = "parse_time_string"
    /\ parseCall.result.t = "none"
    /\ parseCall' = [parseCall EXCEPT
                        !.result =
                            IF ParseTimeString(parseCall.text) = NoTime
                            THEN NoneResult
                            ELSE TimeOfDay(ParseTimeString(parseCall.text))]
    /\ UNCHANGED <<now, tasks, op, ret, lastReq, script, pages, job, fired,
                   lastSent, passLog, sched, schedLog, monVars, pool>>

InitDate ==
    /\ now = 8 * 60
    /\ tasks = [i \in TaskIds |-> [completed |-> FALSE, last_reminded |-> NoDate]]
    /\ op = Idle
    /\ ret = NoRet
    /\ lastReq = NoRun
    /\ script = << >>
    /\ pages = << >>
    /\ job = NoJob
    /\ fired = {}
    /\ lastSent = [i \in TaskIds |-> NoDate]
    /\ passLog = NoPass
    /\ sched = NoSched
    /\ schedLog = NoSchedLog
    /\ NoMonitor
    /\ pool = NoPool
    /\ \/ parseCall \in [fn : {"parse_natural_date_string"}, text : DateTexts,
                         ref : RefDates, result : {[t |-> "none"]}]
       \/ parseCall \in [fn : {"parse_time_string"}, text : TimeTexts,
                         ref : {FirstRefDay}, result : {[t |-> "none"]}]

NextDate ==
    \/ CallParseNaturalDateString
    \/ CallParseTimeString

SpecDate == InitDate /\ [][NextDate]_vars


\* Claims about the parsers
\* ------------------------------------------------------------------------
\* The day number of the d-th of January 2024.
January2024(d) == d - 1

\* The shift of the reference day each relative keyword stands for.
KeywordShift ==
    { <<KwToday, 0>>, <<KwTomorrow, 1>>, <<KwDayAfterTomorrow, 2>>,
      <<KwYesterday, 0 - 1>>, <<KwDayBeforeYesterday, 0 - 2>>,
      <<KwDayBeforeYesterdayShort, 0 - 2>> }

IsWeekdayText(q, w) == parseCall.text = q \o w

\* C32: a weekday name after the next-week qualifier, written with or
\* without a space, gives that weekday in the calendar week (Monday to
\* Sunday) that follows the week of the reference day; a weekday name
\* alone gives its nearest occurrence on or after the reference day.
C32_WeekdayResolution ==
    (parseCall.fn = "parse_natural_date_string" /\ parseCall.result.t # "none") =>
        \A w \in WeekdayNames :
          LET wd == DayNumber(w[1])
              ref == parseCall.ref
          IN /\ (\/ IsWeekdayText(NextWeekLiteral \o <<" ">>, w)
                 \/ IsWeekdayText(QualNext \o <<WeekSyllable, " ">>, w)) =>
                    /\ parseCall.result.t = "datetime"
                    /\ parseCall.result.date = ref - Weekday(ref) + 7 + wd
             /\ IsWeekdayText(<< >>, w) =>
                    /\ parseCall.result.t = "datetime"
                    /\ parseCall.result.date >= ref
                    /\ parseCall.result.date < ref + 7
                    /\ Weekday(parseCall.result.date) = wd


\* C33: a parser never raises: every call returns a parsed value or None,
\* and a time of day it returns has its hour in 0..23 and its minute in
\* 0..59.
C33_ParsersNeverRaise ==
    parseCall.result.t # "none" =>
        /\ parseCall.result.t \in {"datetime", "time", "None"}
        /\ parseCall.result.t \in {"datetime", "time"} =>
              /\ parseCall.result.minutes \div 60 \in 0..23
              /\ parseCall.result.minutes % 60 \in 0..59


\* The session pool of NotionService (services/notion_service.py)
\* ------------------------------------------------------------------------
\* Coroutines that call the service concurrently, and sessions one run of
\* the model creates.
NCoroutines == 3
MaxSessions == 3
Coroutines == 1..NCoroutines

\* The sessions that are open.
OpenSessions(pl) == { k \in 1..Len(pl.sessions) : pl.sessions[k] = "open" }

NeedsSessionAlways(pl) == TRUE

\* Line 50: self._session is None or self._session.closed.
NeedsSession(pl) == pl.session = 0 \/ pl.sessions[pl.session] = "closed"

\* _get_session() for coroutine p once it holds the lock (lines 49-55):
\* the block has no await, so it runs as one step and the lock is free
\* again after it.
GetSession(pl, p) ==
    LET made == IF NeedsSession(pl)
                THEN [pl EXCEPT !.sessions = Append(@, "open"),
                                !.session = Len(pl.sessions) + 1]
                ELSE pl
    IN [made EXCEPT !.got[p] = made.session]

\* _request (line 67): the coroutine p gets the session, waiting while the
\* lock is held, and then sends its request with it.
SessionRequest(p) ==
    /\ pool.pc[p] = "idle"
    /\ pool.session_lock = 0
    /\ ~NeedsSession(pool) \/ Len(pool.sessions) < MaxSessions
    /\ pool' = [GetSession(pool, p) EXCEPT
                   !.pc[p] = "request",
                   !.last = [op |-> "_get_session", p |-> p]]
    /\ UNCHANGED <<now, tasks, op, ret, lastReq, script, pages, job, fired,
                   lastSent, passLog, sched, schedLog, monVars, parseCall>>

\* The request of coroutine p is over.
SessionRequestDone(p) ==
    /\ pool.pc[p] = "request"
    /\ pool' = [pool EXCEPT !.pc[p] = "idle", !.got[p] = 0,
                            !.last = [op |-> "_request", p |-> p]]
    /\ UNCHANGED <<now, tasks, op, ret, lastReq, script, pages, job, fired,
                   lastSent, passLog, sched, schedLog, monVars, parseCall>>

\* close_session() (lines 57-63) up to its await: the coroutine p takes
\* the lock and, if a session is open, starts closing it and keeps the
\* lock while it waits.
CloseSession(p) ==
    /\ pool.pc[p] = "idle"
    /\ pool.session_lock = 0
    /\ pool' = IF pool.session # 0 /\ pool.sessions[pool.session] = "open"
               THEN [pool EXCEPT !.pc[p] = "close", !.session_lock = p,
                                 !.last = [op |-> "close_session", p |-> p]]
               ELSE [pool EXCEPT !.last = [op |-> "close_session", p |-> p]]
    /\ UNCHANGED <<now, tasks, op, ret, lastReq, script, pages, job, fired,
                   lastSent, passLog, sched, schedLog, monVars, parseCall>>

\* close_session() after its await (lines 61-63): the session is closed,
\* _session is None, the lock is free.
CloseSessionDone(p) ==
    /\ pool.pc[p] = "close"
    /\ pool' = [pool EXCEPT !.sessions[pool.session] = "closed",
                            !.session = 0,
                            !.session_lock = 0,
                            !.pc[p] = "idle",
                            !.last = [op |-> "close_session", p |-> p]]
    /\ UNCHANGED <<now, tasks, op, ret, lastReq, script, pages, job, fired,
                   lastSent, passLog, sched, schedLog, monVars, parseCall>>

InitPool ==
    /\ now = 1
    /\ tasks = [i \in TaskIds |-> [completed |-> FALSE, last_reminded |-> NoDate]]
    /\ op = Idle
    /\ ret = NoRet
    /\ lastReq = NoRun
    /\ script = << >>
    /\ pages = << >>
    /\ job = NoJob
    /\ fired = {}
    /\ lastSent = [i \in TaskIds |-> NoDate]
    /\ passLog = NoPass
    /\ sched = NoSched
    /\ schedLog = NoSchedLog
    /\ NoMonitor
    /\ parseCall = NoParsed
    /\ pool = [NoPool EXCEPT !.pc = [p \in Coroutines |-> "idle"],
                             !.got = [p \in Coroutines |-> 0]]

NextPool ==
    \/ \E p \in Coroutines : SessionRequest(p)
    \/ \E p \in Coroutines : SessionRequestDone(p)
    \/ \E p \in Coroutines : CloseSession(p)
    \/ \E p \in Coroutines : CloseSessionDone(p)

SpecPool == InitPool /\ [][NextPool]_vars

\* C34: at most one session is open at a time; a session is created only
\* by the _get_session of a request that finds none open, one at a time,
\* so requests that run together share one session; and a session is
\* closed only by close_session.
C34_SharedLazySession ==
    [][ /\ Cardinality(OpenSessions(pool)) <= 1
        /\ Cardinality(OpenSessions(pool')) <= 1
        /\ Len(pool'.sessions) > Len(pool.sessions) =>
              /\ pool'.last.op = "_get_session"
              /\ OpenSessions(pool) = {}
              /\ Len(pool'.sessions) = Len(pool.sessions) + 1
        /\ pool'.last.op = "_get_session" =>
              /\ pool'.got[pool'.last.p] \in OpenSessions(pool')
              /\ OpenSessions(pool) # {} => pool'.sessions = pool.sessions
        /\ OpenSessions(pool) \ OpenSessions(pool') # {} =>
              pool'.last.op = "close_session" ]_vars

C34_Witness ==
    /\ pool.sessions = <<"closed", "open">>
    /\ \A p \in Coroutines : pool.pc[p] = "request" /\ pool.got[p] = 2

====
